---- MODULE Spec2Model ----
(***************************************************************************)
(* Verification model of everest-mod-cli: dependency resolution, the       *)
(* checksum-verified download of one mod, the permit pool that bounds      *)
(* concurrent downloads, mirror failover, the run of the install and       *)
(* update commands, the update check, the cached checksum of a local mod   *)
(* and the loading of the local mods.                                      *)
(***************************************************************************)
EXTENDS Integers, Sequences, FiniteSets, TLC

(***************************************************************************)
(* Bounds of the model.                                                    *)
(***************************************************************************)
\* at most this many dependency edges in a generated dependency graph
MaxEdges == 3
\* at most this many names that are installed or absent from the registry
MaxMarked == 2

(***************************************************************************)
(* Names.                                                                  *)
(***************************************************************************)
\* ordinary mod names
Mods == {"A", "B", "C"}

\* the names filtered out as primal dependencies
CoreNames == {"Everest", "EverestCore"}

Names == Mods \cup CoreNames

\* the set of elements of a sequence
Range(s) == {s[i] : i \in 1..Len(s)}

\* a fixed enumeration of a finite set, standing for the iteration order of a collection
RECURSIVE SetToSeq(_)
SetToSeq(S) ==
    IF S = {} THEN <<>>
    ELSE LET x == CHOOSE y \in S : TRUE IN <<x>> \o SetToSeq(S \ {x})

\* a sequence has no repeated element
NoDuplicates(s) == \A i, j \in 1..Len(s) : s[i] = s[j] => i = j

\* subsets of S with at most k elements
SubsetsUpTo(S, k) == {T \in SUBSET S : Cardinality(T) <= k}

VARIABLES
    \* ---- resolution (main.rs install loop, install.rs) ----
    graph,          \* dependency graph: name -> set of required dependency names
    registry,       \* mod registry: name -> RemoteModInfo
    installed,      \* installed_mod_names
    target,         \* mod_name being installed
    flow,           \* "graph": main.rs install loop; "manifest": install.rs install()
    pc,             \* position in the flow
    queue,          \* BFS queue
    visited,        \* BFS visited set
    order,          \* names in the order they were marked visited
    expansions,     \* name -> number of times its dependency record was looked up
    fetch,          \* downloadable_mods: sequence of <<name, info>>
    diag,           \* names reported as not found in the registry
    todo,           \* missing_dependencies not yet processed by resolve_dependencies
    missing,        \* missing_dependencies as computed by install()
    attempted,      \* names for which download_mod was called, in call order
    result,         \* result of the flow: "none", "Ok", "Err"
    \* ---- one call of download_mod (download.rs) ----
    expected,       \* expected_hash: the acceptable checksums, as strings
    file,           \* what is at download_path: "absent", "old" or "this" (written by this call)
    written,        \* bytes written to the file by this call
    hasher,         \* state of the streaming hasher
    hashedData,     \* bytes fed to the hasher
    received,       \* number of chunks taken from the stream
    created,        \* File::create succeeded in this call
    computed,       \* hash_str, once computed
    dpc,            \* position in download_mod
    dresult,        \* result of download_mod
    arrived,        \* the bytes the body stream has yielded, in the order it yielded them
    \* ---- the concurrent downloads of one fetch set ----
    permits,        \* permits available in the semaphore
    task,           \* item -> "spawned", "inflight" or "finished"
    outcome,        \* item -> "none", or the result of its download
    joined,         \* the per-item results were collected
    \* ---- the download of one item over the mirror list ----
    mirrors,        \* the mirror priority list
    current,        \* index of the mirror to try next
    tried,          \* mirrors contacted, in order
    answers,        \* how each contacted mirror answered the request: "ok" or "failed"
    mpc,            \* "trying", "body" or "done"
    mresult,        \* outcome of the item
    \* ---- a second resolution of the same target ----
    round,          \* 1 during the first resolution, 2 during the second
    firstFetch,     \* the fetch set the first resolution returned
    \* ---- one run of the install or update command (main.rs run) ----
    command,        \* "install" or "update"
    installFlag,    \* args.install of the update command
    regTask,        \* stage of RemoteModRegistry::fetch
    graphTask,      \* stage of DependencyGraph::fetch
    spinner,        \* "none", "spinning", "finished" or "dropped"
    rpc,            \* position in run
    rresult,        \* result of run: "none", "Ok", "Err"
    issued,         \* number of calls of download_mods_concurrently
    pendingNames,   \* install: mod_names left to process; update: available updates
    \* ---- check_updates (update.rs) ----
    local_mods,     \* the local mods: name, body of the archive file, checksum cell
    mod_registry,   \* name -> RemoteModInfo
    examined,       \* index -> "pending", or what the closure returned for the mod
    failed,         \* indices of the mods whose checksum could not be computed
    updates,        \* the collected result
    upc,            \* "scanning" or "done"
    \* ---- LocalMod::checksum on one local mod (local.rs) ----
    cell,           \* the OnceCell: <<>> or <<hash>>
    fileBody,       \* content of the archive file
    returns,        \* what each call of checksum() returned, in call order
    hashRuns,       \* what each run of hash_file returned, in order
    \* ---- LocalMod::load_local_mods (local.rs) ----
    archive_paths,  \* the archives found in the mods directory
    loaded,         \* index -> "pending", or the result of from_path
    logged,         \* index -> "none", "warn" or "error"
    loadedMods,     \* the collected Vec<LocalMod>
    lpc,            \* "loading" or "done"
    \* ---- one call of a function of cli.rs, util.rs, local.rs, mod_registry.rs ----
    callee,         \* the function called, "none" when there is no call
    argument,       \* what it is called with
    returned,       \* <<>> before the call returns, then <<value>>
    \* ---- the destination files of the downloads of one run (download.rs) ----
    responses,      \* item -> the response to its request
    uuids,          \* the identifiers Uuid::new_v4 has produced so far
    destination,    \* item -> <<>>, or <<file name>> once determined
    dstage,         \* item -> "requested", "writing" or "done"
    \* ---- one install or update command with its data (main.rs) ----
    subcommand,          \* "install" or "update", "none" outside a command
    args_install,        \* update: whether --install was given
    loaded_registry,     \* the registry once fetched: name -> RemoteModInfo
    loaded_graph,        \* the dependency graph once fetched: name -> dependencies
    mod_names,           \* install: the names registered under the page id
    next_name,           \* install: index of the name the loop is at
    installed_mod_names, \* install: the names counted as installed
    inventory,           \* the local mods as loaded from the mods directory
    kept_mods,           \* update: local_mods, filtered by the blacklist
    updater_blacklist,   \* what read_updater_blacklist returns
    available_updates,   \* update: what check_updates returned
    batches,             \* the names handed to each call of download_mods_concurrently
    mods_dir,            \* the files of the mods directory: names of the present files
    cpc,                 \* position in the command
    cresult              \* "none", "Ok" or "Err"

resolveVars == <<graph, registry, installed, target, flow, pc, queue, visited, order,
                 expansions, fetch, diag, todo, missing, attempted, result>>

downloadVars == <<expected, file, written, hasher, hashedData, received, created,
                  computed, dpc, dresult, arrived>>

poolVars == <<permits, task, outcome, joined>>

mirrorVars == <<mirrors, current, tried, answers, mpc, mresult>>

repeatVars == <<round, firstFetch>>

runVars == <<command, installFlag, regTask, graphTask, spinner, rpc, rresult, issued,
             pendingNames>>

updateVars == <<local_mods, mod_registry, examined, failed, updates, upc>>

cellVars == <<cell, fileBody, returns, hashRuns>>

localVars == <<archive_paths, loaded, logged, loadedMods, lpc>>

callVars == <<callee, argument, returned>>

destVars == <<responses, uuids, destination, dstage>>

commandVars == <<subcommand, args_install, loaded_registry, loaded_graph, mod_names,
                 next_name, installed_mod_names, inventory, kept_mods,
                 updater_blacklist, available_updates, batches, mods_dir, cpc, cresult>>

vars == <<resolveVars, downloadVars, poolVars, mirrorVars, repeatVars, runVars,
          updateVars, cellVars, localVars, callVars, destVars, commandVars>>

\* the variables each part of the model leaves alone
outsideResolve == <<downloadVars, poolVars, mirrorVars, repeatVars, runVars, updateVars,
                    cellVars, localVars, callVars, destVars,
                    commandVars>>
outsideDownload == <<resolveVars, poolVars, mirrorVars, repeatVars, runVars, updateVars,
                     cellVars, localVars, callVars, destVars,
                    commandVars>>
outsidePool == <<resolveVars, downloadVars, mirrorVars, repeatVars, runVars, updateVars,
                 cellVars, localVars, callVars, destVars,
                    commandVars>>
outsideMirror == <<resolveVars, downloadVars, poolVars, repeatVars, runVars, updateVars,
                   cellVars, localVars, callVars, destVars,
                    commandVars>>
outsideRepeat == <<downloadVars, poolVars, mirrorVars, runVars, updateVars, cellVars,
                   localVars, callVars, destVars,
                    commandVars>>
outsideRun == <<resolveVars, downloadVars, poolVars, mirrorVars, repeatVars, updateVars,
                cellVars, localVars, callVars, destVars,
                    commandVars>>
outsideUpdate == <<resolveVars, downloadVars, poolVars, mirrorVars, repeatVars, runVars,
                   cellVars, localVars, callVars, destVars,
                    commandVars>>
outsideCell == <<resolveVars, downloadVars, poolVars, mirrorVars, repeatVars, runVars,
                 updateVars, localVars, callVars, destVars,
                    commandVars>>
outsideCall == <<resolveVars, downloadVars, poolVars, mirrorVars, repeatVars, runVars,
                 updateVars, cellVars, localVars, destVars,
                    commandVars>>
outsideDest == <<resolveVars, downloadVars, poolVars, mirrorVars, repeatVars, runVars,
                 updateVars, cellVars, localVars, callVars,
                    commandVars>>
outsideCommand == <<resolveVars, downloadVars, poolVars, mirrorVars, repeatVars, runVars,
                    updateVars, cellVars, localVars, callVars, destVars>>
outsideLocal == <<resolveVars, downloadVars, poolVars, mirrorVars, repeatVars, runVars,
                  updateVars, cellVars, callVars, destVars,
                    commandVars>>

(***************************************************************************)
(* Registry and dependency graph.                                          *)
(***************************************************************************)
\* one registry entry
RemoteModInfo(n) ==
    [download_url |-> <<"https://example.com/", n>>, checksums |-> <<n>>]

\* RemoteModRegistry::get / get_mod_info_by_name
get_mod_info_by_name(reg, name) ==
    IF name \in DOMAIN reg THEN <<reg[name]>> ELSE <<>>

\* the dependency record of a name; absence of a record means no edges
Dependencies(g, name) == IF name \in DOMAIN g THEN g[name] ELSE {}

\* all dependency graphs with at most MaxEdges edges leaving ordinary mods;
\* the target may carry an empty record
EdgeSets == SubsetsUpTo(Mods \X Names, MaxEdges)

GraphOf(E, extra) ==
    [n \in {e[1] : e \in E} \cup extra |-> {e[2] : e \in {f \in E : f[1] = n}}]

(***************************************************************************)
(* DependencyGraph::check_dependencies, called at main.rs:197.             *)
(***************************************************************************)
\* names a dequeued name contributes to the queue
EnqueueMutant(g, cur, seen) ==
    LET deps == SetToSeq({d \in Dependencies(g, cur) : d \notin seen})
    IN IF deps = <<>> THEN <<>> ELSE <<Head(deps)>>
Enqueue(g, cur, seen) == SetToSeq({d \in Dependencies(g, cur) : d \notin seen})

\* whether a dequeued name is expanded
ShouldExpandMutant(cur, seen) == TRUE
ShouldExpand(cur, seen) == cur \notin seen

\* the closure without the platform-core names
ExcludeCoreResolve(s) == SelectSeq(s, LAMBDA n : n \notin CoreNames)

\* the closure minus the installed names
SubtractInstalled(s, inst) == SelectSeq(s, LAMBDA n : n \notin inst)

\* registry lookup of every missing name; misses are dropped
LookupAll(s, reg) ==
    LET found == SelectSeq(s, LAMBDA n : get_mod_info_by_name(reg, n) # <<>>)
    IN [i \in 1..Len(found) |-> <<found[i], reg[found[i]]>>]

LookupMisses(s, reg) == {n \in Range(s) : get_mod_info_by_name(reg, n) = <<>>}

(***************************************************************************)
(* install.rs                                                              *)
(***************************************************************************)
\* check_dependencies: the manifest's dependencies without the primal ones
FilteredDepsMutant(deps) == deps
FilteredDeps(deps) == {d \in deps : d \notin {"Everest", "EverestCore"}}

\* install: dependencies.difference(&installed_mod_names)
MissingDependenciesMutant(deps, inst) == deps
MissingDependencies(deps, inst) == deps \ inst

(***************************************************************************)
(* Checksums.  A 64-bit digest is four 16-bit limbs, most significant      *)
(* first; a checksum string is a sequence of characters.                   *)
(***************************************************************************)
\* at most this many chunks in a response body
MaxChunks == 2
\* at most this many entries in the list of acceptable checksums
MaxExpected == 2

\* a limb holds sixteen bits
Limb == 2 ^ 16

\* the chunks a response body is made of
Chunks == {<<1>>, <<2>>}

HexChars == <<"0", "1", "2", "3", "4", "5", "6", "7", "8", "9", "a", "b", "c", "d", "e", "f">>

UpperChars == <<"A", "B", "C", "D", "E", "F", "G", "H", "I", "J", "K", "L", "M",
                "N", "O", "P", "Q", "R", "S", "T", "U", "V", "W", "X", "Y", "Z">>

LowerChars == <<"a", "b", "c", "d", "e", "f", "g", "h", "i", "j", "k", "l", "m",
                "n", "o", "p", "q", "r", "s", "t", "u", "v", "w", "x", "y", "z">>

\* char::to_ascii_lowercase / to_ascii_uppercase
to_ascii_lowercase(c) ==
    IF \E i \in 1..26 : UpperChars[i] = c
    THEN LowerChars[CHOOSE i \in 1..26 : UpperChars[i] = c] ELSE c

to_ascii_uppercase(c) ==
    IF \E i \in 1..26 : LowerChars[i] = c
    THEN UpperChars[CHOOSE i \in 1..26 : LowerChars[i] = c] ELSE c

\* str::eq_ignore_ascii_case
eq_ignore_ascii_case(a, b) ==
    /\ Len(a) = Len(b)
    /\ \A i \in 1..Len(a) : to_ascii_lowercase(a[i]) = to_ascii_lowercase(b[i])

\* Xxh64::new(0)
Xxh64New == <<0, 0, 0, 0>>

\* Xxh64::update, one byte: a stand-in mixing function that depends on every
\* byte and on their order
Xxh64UpdateByte(h, b) ==
    <<(h[2] * 5 + 40503 * b) % Limb, (h[3] + 4099 * b + 51966) % Limb,
      (h[4] * 3 + 57005 + b) % Limb, (h[1] + 48879 * b) % Limb>>

\* Xxh64::update, one chunk
RECURSIVE Xxh64Update(_, _)
Xxh64Update(h, chunk) ==
    IF chunk = <<>> THEN h
    ELSE Xxh64Update(Xxh64UpdateByte(h, Head(chunk)), Tail(chunk))

\* Xxh64::digest
Xxh64Digest(h) == h

\* the sixteen hexadecimal digits of a digest
Nibbles(l) == <<l \div 4096, (l \div 256) % 16, (l \div 16) % 16, l % 16>>

RECURSIVE StripLeadingZeros(_)
StripLeadingZeros(ns) ==
    IF Len(ns) > 1 /\ ns[1] = 0 THEN StripLeadingZeros(Tail(ns)) ELSE ns

\* the padding put after the digits
RECURSIVE PadLeftMutant(_, _, _)
PadLeftMutant(cs, width, ch) ==
    IF Len(cs) >= width THEN cs ELSE PadLeftMutant(cs \o <<ch>>, width, ch)

RECURSIVE PadLeft(_, _, _)
PadLeft(cs, width, ch) ==
    IF Len(cs) >= width THEN cs ELSE PadLeft(<<ch>> \o cs, width, ch)

\* format!("{:016x}", hash): lowercase hexadecimal, zero-padded to sixteen characters
FormatHex16(d) ==
    LET ns == StripLeadingZeros(Nibbles(d[1]) \o Nibbles(d[2]) \o Nibbles(d[3]) \o Nibbles(d[4]))
    IN PadLeft([i \in 1..Len(ns) |-> HexChars[ns[i] + 1]], 16, "0")

\* the same string in upper case, as a registry may list it
ToUpper(cs) == [i \in 1..Len(cs) |-> to_ascii_uppercase(cs[i])]

\* checksum of a whole body
ChecksumOf(body) == FormatHex16(Xxh64Digest(Xxh64Update(Xxh64New, body)))

\* the checksums a registry entry may list
CandidateChecksums ==
    {ChecksumOf(<<1>>), ToUpper(ChecksumOf(<<1>>)), ChecksumOf(<<1, 2>>),
     ToUpper(ChecksumOf(<<1, 2>>))}

\* sequences over S of length 1..n
RECURSIVE SeqsUpTo(_, _)
SeqsUpTo(S, n) ==
    IF n = 0 THEN {}
    ELSE LET shorter == SeqsUpTo(S, n - 1)
         IN {<<x>> : x \in S} \cup shorter \cup {Append(t, x) : t \in shorter, x \in S}

\* download.rs:157: expected_hash.contains(&hash_str)
ContainsAnyMutant(list, str) == Len(list) > 0
ContainsMutant(list, str) == list[1] = str
Contains(list, str) == \E i \in 1..Len(list) : list[i] = str

\* RemoteModInfo::has_matching_hash
has_matching_hashMutant(checksums, computed_hash) ==
    \E i \in 1..Len(checksums) : checksums[i] = computed_hash
has_matching_hash(checksums, computed_hash) ==
    \E i \in 1..Len(checksums) : eq_ignore_ascii_case(checksums[i], computed_hash)

(***************************************************************************)
(* Parts of the model at rest.                                             *)
(***************************************************************************)
IdleResolve ==
    /\ graph = <<>> /\ registry = <<>> /\ installed = {} /\ target = "A"
    /\ flow = "none" /\ pc = "idle" /\ queue = <<>> /\ visited = {} /\ order = <<>>
    /\ expansions = [n \in Names |-> 0] /\ fetch = <<>> /\ diag = {} /\ todo = {}
    /\ missing = {} /\ attempted = <<>> /\ result = "none"

IdleDownload ==
    /\ expected = <<>> /\ file = "absent" /\ written = <<>> /\ hasher = Xxh64New
    /\ hashedData = <<>> /\ received = 0 /\ created = FALSE /\ computed = <<>>
    /\ dpc = "idle" /\ dresult = "none" /\ arrived = <<>>

IdlePool ==
    /\ permits = 0 /\ task = <<>> /\ outcome = <<>> /\ joined = FALSE

IdleMirror ==
    /\ mirrors = <<>> /\ current = 0 /\ tried = <<>> /\ answers = <<>> /\ mpc = "idle"
    /\ mresult = "none"

\* a resolution is the first one until it is repeated
IdleRepeat ==
    /\ round = 1 /\ firstFetch = <<>>

IdleRun ==
    /\ command = "none" /\ installFlag = FALSE /\ regTask = "unused"
    /\ graphTask = "unused" /\ spinner = "none" /\ rpc = "idle" /\ rresult = "none"
    /\ issued = 0 /\ pendingNames = 0

IdleUpdate ==
    /\ local_mods = <<>> /\ mod_registry = <<>> /\ examined = <<>> /\ failed = {}
    /\ updates = <<>> /\ upc = "idle"

IdleCell ==
    /\ cell = <<>> /\ fileBody = <<>> /\ returns = <<>> /\ hashRuns = <<>>

IdleLocal ==
    /\ archive_paths = <<>> /\ loaded = <<>> /\ logged = <<>> /\ loadedMods = <<>>
    /\ lpc = "idle"

IdleCall ==
    /\ callee = "none" /\ argument = <<>> /\ returned = <<>>

IdleDest ==
    /\ responses = <<>> /\ uuids = {} /\ destination = <<>> /\ dstage = <<>>

IdleCommand ==
    /\ subcommand = "none" /\ args_install = FALSE /\ loaded_registry = <<>>
    /\ loaded_graph = <<>> /\ mod_names = <<>> /\ next_name = 1
    /\ installed_mod_names = {} /\ inventory = <<>> /\ kept_mods = <<>>
    /\ updater_blacklist = <<"None">> /\ available_updates = <<>> /\ batches = <<>>
    /\ mods_dir = {} /\ cpc = "idle" /\ cresult = "none"

(***************************************************************************)
(* Initial states of a resolution.                                         *)
(***************************************************************************)
\* marks: the sets of names that are installed or unlisted; each marked name
\* is either installed or absent from the registry
InitResolveIn(flows, marks) ==
    /\ target \in {"A", "Everest"}
    /\ \E E \in EdgeSets, extra \in SUBSET {target} : graph = GraphOf(E, extra)
    /\ \E S \in marks : \E I \in SUBSET S :
          /\ installed = I
          /\ registry = [n \in Names \ (S \ I) |-> RemoteModInfo(n)]
    /\ flow \in flows
    /\ pc = "start"
    /\ queue = <<>>
    /\ visited = {}
    /\ order = <<>>
    /\ expansions = [n \in Names |-> 0]
    /\ fetch = <<>>
    /\ diag = {}
    /\ todo = {}
    /\ missing = {}
    /\ attempted = <<>>
    /\ result = "none"
    /\ IdleDownload /\ IdlePool /\ IdleMirror
    /\ IdleRepeat /\ IdleRun /\ IdleUpdate /\ IdleCell /\ IdleLocal /\ IdleCall /\ IdleDest /\ IdleCommand

InitResolve == InitResolveIn({"graph", "manifest"}, SubsetsUpTo(Names, MaxMarked))

\* the traversal alone: nothing installed, every name listed
InitTraversal == InitResolveIn({"graph"}, {{}})

(***************************************************************************)
(* main.rs install loop, one mod name.                                     *)
(***************************************************************************)
\* main.rs:192-195: the mod is already installed
SkipInstalled ==
    /\ flow = "graph" /\ pc = "start"
    /\ target \in installed
    /\ pc' = "skipped"
    /\ UNCHANGED <<graph, registry, installed, target, flow, queue, visited, order,
                   expansions, fetch, diag, todo, missing, attempted, result>>
    /\ UNCHANGED outsideResolve

\* the traversal started at the dependencies of the mod name
StartResolveMutant ==
    /\ flow = "graph" /\ pc = "start"
    /\ target \notin installed
    /\ pc' = "bfs"
    /\ queue' = SetToSeq(Dependencies(graph, target))
    /\ UNCHANGED <<graph, registry, installed, target, flow, visited, order,
                   expansions, fetch, diag, todo, missing, attempted, result>>
    /\ UNCHANGED outsideResolve

\* main.rs:197: check_dependencies starts its traversal at the mod name
StartResolve ==
    /\ flow = "graph" /\ pc = "start"
    /\ target \notin installed
    /\ pc' = "bfs"
    /\ queue' = <<target>>
    /\ UNCHANGED <<graph, registry, installed, target, flow, visited, order,
                   expansions, fetch, diag, todo, missing, attempted, result>>
    /\ UNCHANGED outsideResolve

\* one iteration of the traversal loop: dequeue a name, expand it if it is new
BfsStep ==
    /\ flow = "graph" /\ pc = "bfs"
    /\ queue # <<>>
    /\ LET cur == Head(queue) IN
         IF ShouldExpand(cur, visited)
         THEN /\ visited' = visited \cup {cur}
              /\ order' = Append(order, cur)
              /\ expansions' = [expansions EXCEPT ![cur] = @ + 1]
              /\ queue' = Tail(queue) \o Enqueue(graph, cur, visited \cup {cur})
         ELSE /\ queue' = Tail(queue)
              /\ UNCHANGED <<visited, order, expansions>>
    /\ UNCHANGED <<graph, registry, installed, target, flow, pc, fetch, diag, todo,
                   missing, attempted, result>>
    /\ UNCHANGED outsideResolve

\* the queue is empty: exclude the core names, subtract the installed names,
\* look the rest up in the registry
FinishResolve ==
    /\ flow = "graph" /\ pc = "bfs"
    /\ queue = <<>>
    /\ LET closure == ExcludeCoreResolve(order)
           miss == SubtractInstalled(closure, installed)
       IN /\ fetch' = LookupAll(miss, registry)
          /\ diag' = LookupMisses(miss, registry)
    /\ pc' = "resolved"
    /\ UNCHANGED <<graph, registry, installed, target, flow, queue, visited, order,
                   expansions, todo, missing, attempted, result>>
    /\ UNCHANGED outsideResolve

(***************************************************************************)
(* install.rs: install() and resolve_dependencies().                       *)
(***************************************************************************)
\* install.rs:21-28: download of the mod itself; an error is propagated
InstallDownload ==
    /\ flow = "manifest" /\ pc = "start"
    /\ attempted' = Append(attempted, target)
    /\ \E ok \in BOOLEAN :
         IF ok THEN pc' = "check" /\ result' = result
         ELSE pc' = "returned" /\ result' = "Err"
    /\ UNCHANGED <<graph, registry, installed, target, flow, queue, visited, order,
                   expansions, fetch, diag, todo, missing>>
    /\ UNCHANGED outsideResolve

\* install.rs:36-45 with check_dependencies (81-105): read the manifest of the
\* downloaded archive, filter, subtract the installed names
InstallCheck ==
    /\ flow = "manifest" /\ pc = "check"
    /\ \E readable \in BOOLEAN :
         IF ~readable
         THEN pc' = "returned" /\ result' = "Err" /\ UNCHANGED <<missing, todo>>
         ELSE IF target \notin DOMAIN graph
         THEN pc' = "returned" /\ result' = "Ok" /\ UNCHANGED <<missing, todo>>
         ELSE LET m == MissingDependencies(FilteredDeps(graph[target]), installed) IN
              /\ missing' = m
              /\ todo' = m
              /\ IF m = {} THEN pc' = "returned" /\ result' = "Ok"
                 ELSE pc' = "deps" /\ result' = result
    /\ UNCHANGED <<graph, registry, installed, target, flow, queue, visited, order,
                   expansions, fetch, diag, attempted>>
    /\ UNCHANGED outsideResolve

\* install.rs:58-76: one iteration of the loop over missing_dependencies
ResolveDependencyMutant ==
    /\ flow = "manifest" /\ pc = "deps"
    /\ todo # {}
    /\ \E d \in todo :
         IF get_mod_info_by_name(registry, d) # <<>>
         THEN /\ attempted' = Append(attempted, d)
              /\ diag' = diag
              /\ \E ok \in BOOLEAN :
                   IF ok THEN todo' = todo \ {d} /\ pc' = pc /\ result' = result
                   ELSE todo' = todo /\ pc' = "returned" /\ result' = "Err"
         ELSE /\ pc' = "returned" /\ result' = "Err"
              /\ UNCHANGED <<attempted, diag, todo>>
    /\ UNCHANGED <<graph, registry, installed, target, flow, queue, visited, order,
                   expansions, fetch, missing>>
    /\ UNCHANGED outsideResolve
ResolveDependency ==
    /\ flow = "manifest" /\ pc = "deps"
    /\ todo # {}
    /\ \E d \in todo :
         IF get_mod_info_by_name(registry, d) # <<>>
         THEN /\ attempted' = Append(attempted, d)
              /\ diag' = diag
              /\ \E ok \in BOOLEAN :
                   IF ok THEN todo' = todo \ {d} /\ pc' = pc /\ result' = result
                   ELSE todo' = todo /\ pc' = "returned" /\ result' = "Err"
         ELSE /\ diag' = diag \cup {d}
              /\ todo' = todo \ {d}
              /\ UNCHANGED <<attempted, pc, result>>
    /\ UNCHANGED <<graph, registry, installed, target, flow, queue, visited, order,
                   expansions, fetch, missing>>
    /\ UNCHANGED outsideResolve

\* install.rs:77: the loop is over
ResolveDependenciesDone ==
    /\ flow = "manifest" /\ pc = "deps"
    /\ todo = {}
    /\ pc' = "returned"
    /\ result' = "Ok"
    /\ UNCHANGED <<graph, registry, installed, target, flow, queue, visited, order,
                   expansions, fetch, diag, todo, missing, attempted>>
    /\ UNCHANGED outsideResolve

NextResolve ==
    \/ SkipInstalled
    \/ StartResolve
    \/ BfsStep
    \/ FinishResolve
    \/ InstallDownload
    \/ InstallCheck
    \/ ResolveDependency
    \/ ResolveDependenciesDone

SpecResolve == InitResolve /\ [][NextResolve]_vars

NextTraversal ==
    \/ StartResolve
    \/ BfsStep
    \/ FinishResolve

\* the traversal is a loop that runs until the queue is empty
FairTraversal == InitTraversal /\ [][NextTraversal]_vars /\ WF_vars(NextTraversal)

(***************************************************************************)
(* The same target resolved a second time against the same graph,          *)
(* registry and installed names.                                           *)
(***************************************************************************)
\* the visited set a traversal starts from, given the one the previous
\* traversal ended with
SeedVisitedMutant(previous) == previous
SeedVisited(previous) == {}

\* check_dependencies is called again with the arguments of the first call
ResolveAgain ==
    /\ flow = "graph" /\ pc = "resolved"
    /\ round = 1
    /\ round' = 2
    /\ firstFetch' = fetch
    /\ pc' = "bfs"
    /\ queue' = <<target>>
    /\ visited' = SeedVisited(visited)
    /\ order' = <<>>
    /\ expansions' = [n \in Names |-> 0]
    /\ fetch' = <<>>
    /\ diag' = {}
    /\ UNCHANGED <<graph, registry, installed, target, flow, todo, missing, attempted,
                   result>>
    /\ UNCHANGED outsideRepeat

NextRepeat ==
    \/ SkipInstalled
    \/ StartResolve
    \/ BfsStep
    \/ FinishResolve
    \/ ResolveAgain

InitRepeat == InitResolveIn({"graph"}, SubsetsUpTo(Names, MaxMarked))

SpecRepeat == InitRepeat /\ [][NextRepeat]_vars

(***************************************************************************)
(* download.rs: ModDownloader::download_mod, one call.                     *)
(***************************************************************************)
\* download.rs:139, file.write_all(&chunk): the chunk goes after what the file holds
write_allMutant(content, chunk) == chunk \o content
write_all(content, chunk) == content \o chunk

InitDownload ==
    /\ expected \in SeqsUpTo(CandidateChecksums, MaxExpected)
    /\ file \in {"absent", "old"}
    /\ written = <<>>
    /\ hasher = Xxh64New
    /\ hashedData = <<>>
    /\ received = 0
    /\ created = FALSE
    /\ computed = <<>>
    /\ dpc = "start"
    /\ dresult = "none"
    /\ arrived = <<>>
    /\ IdleResolve /\ IdlePool /\ IdleMirror
    /\ IdleRepeat /\ IdleRun /\ IdleUpdate /\ IdleCell /\ IdleLocal /\ IdleCall /\ IdleDest /\ IdleCommand

\* download.rs:115-120: send the request; a network error or an error status
\* is returned; the file name is determined from the response
SendRequest ==
    /\ dpc = "start"
    /\ \E ok \in BOOLEAN :
         IF ok THEN dpc' = "responded" /\ dresult' = dresult
         ELSE dpc' = "returned" /\ dresult' = "Request"
    /\ UNCHANGED <<expected, file, written, hasher, hashedData, received, created, computed,
                   arrived>>
    /\ UNCHANGED outsideDownload

\* download.rs:131-135: create (or truncate) the destination file
CreateFile ==
    /\ dpc = "responded"
    /\ \E ok \in BOOLEAN :
         IF ok THEN /\ file' = "this" /\ created' = TRUE
                    /\ dpc' = "streaming" /\ dresult' = dresult
         ELSE /\ dpc' = "returned" /\ dresult' = "Io"
              /\ UNCHANGED <<file, created>>
    /\ UNCHANGED <<expected, written, hasher, hashedData, received, computed, arrived>>
    /\ UNCHANGED outsideDownload

\* download.rs:137-144, Some(Ok(chunk)): write the chunk, then feed the hasher
StreamChunk ==
    /\ dpc = "streaming"
    /\ received < MaxChunks
    /\ \E chunk \in Chunks, wrote \in BOOLEAN :
         /\ received' = received + 1
         /\ arrived' = arrived \o chunk
         /\ IF wrote
            THEN /\ written' = write_all(written, chunk)
                 /\ hasher' = Xxh64Update(hasher, chunk)
                 /\ hashedData' = hashedData \o chunk
                 /\ UNCHANGED <<dpc, dresult>>
            ELSE \* write_all failed after writing some prefix of the chunk
                 /\ \E k \in 0..(Len(chunk) - 1) : written' = written \o SubSeq(chunk, 1, k)
                 /\ dpc' = "returned" /\ dresult' = "Io"
                 /\ UNCHANGED <<hasher, hashedData>>
    /\ UNCHANGED <<expected, file, created, computed>>
    /\ UNCHANGED outsideDownload

\* download.rs:137-138, Some(Err(e)): the body stream fails
StreamError ==
    /\ dpc = "streaming"
    /\ dpc' = "returned"
    /\ dresult' = "Request"
    /\ UNCHANGED <<expected, file, written, hasher, hashedData, received, created, computed,
                   arrived>>
    /\ UNCHANGED outsideDownload

\* download.rs:146-170, None: the body is complete; compute and verify the checksum
Verify ==
    /\ dpc = "streaming"
    /\ LET hash_str == FormatHex16(Xxh64Digest(hasher)) IN
         /\ computed' = hash_str
         /\ IF Contains(expected, hash_str)
            THEN /\ dresult' = "Ok"
                 /\ file' = file
            ELSE \E removed \in BOOLEAN :
                   IF removed THEN file' = "absent" /\ dresult' = "InvalidChecksum"
                   ELSE file' = file /\ dresult' = "Io"
    /\ dpc' = "returned"
    /\ UNCHANGED <<expected, written, hasher, hashedData, received, created, arrived>>
    /\ UNCHANGED outsideDownload

NextDownload ==
    \/ SendRequest
    \/ CreateFile
    \/ StreamChunk
    \/ StreamError
    \/ Verify

SpecDownload == InitDownload /\ [][NextDownload]_vars

(***************************************************************************)
(* The concurrent downloads of one fetch set under the permit pool         *)
(* created at main.rs:158 and passed to the downloads at main.rs:209-215.  *)
(***************************************************************************)
\* number of items in the fetch set
NumItems == 7

\* permits of the semaphore
PoolSize == 6

Items == 1..NumItems

\* Semaphore::new(6)
SemaphoreNewMutant == PoolSize + 1
SemaphoreNew == PoolSize

\* how the download of one item can end
Outcomes == {"Ok", "InvalidChecksum", "Request"}

InFlight == {i \in DOMAIN task : task[i] = "inflight"}

\* the permits available after an item that ended with outcome o gave its permit back
ReleaseMutant(p, o) == IF o = "Ok" THEN p + 1 ELSE p
Release(p, o) == p + 1

InitPool ==
    /\ permits = SemaphoreNew
    /\ task = [i \in Items |-> "spawned"]
    /\ outcome = [i \in Items |-> "none"]
    /\ joined = FALSE
    /\ IdleResolve /\ IdleDownload /\ IdleMirror
    /\ IdleRepeat /\ IdleRun /\ IdleUpdate /\ IdleCell /\ IdleLocal /\ IdleCall /\ IdleDest /\ IdleCommand

\* a spawned item acquires a permit and starts its download
Acquire(i) ==
    /\ task[i] = "spawned"
    /\ permits > 0
    /\ permits' = permits - 1
    /\ task' = [task EXCEPT ![i] = "inflight"]
    /\ UNCHANGED <<outcome, joined>>
    /\ UNCHANGED outsidePool

\* the download of an item ends, in success or in failure, and its permit is released
Finish(i) ==
    /\ task[i] = "inflight"
    /\ \E o \in Outcomes :
         /\ outcome' = [outcome EXCEPT ![i] = o]
         /\ permits' = Release(permits, o)
    /\ task' = [task EXCEPT ![i] = "finished"]
    /\ UNCHANGED joined
    /\ UNCHANGED outsidePool

\* all items are over: their results are collected, one per item
Join ==
    /\ ~joined
    /\ \A i \in Items : task[i] = "finished"
    /\ joined' = TRUE
    /\ UNCHANGED <<permits, task, outcome>>
    /\ UNCHANGED outsidePool

NextPool ==
    \/ \E i \in Items : Acquire(i)
    \/ \E i \in Items : Finish(i)
    \/ Join

SpecPool == InitPool /\ [][NextPool]_vars

\* the runtime keeps running the tasks that can take a step: a download in
\* flight ends, a waiter gets a permit that is available
FairPool == InitPool /\ [][NextPool]_vars /\ WF_vars(NextPool)

(***************************************************************************)
(* Mirror failover for one item (cli.rs:13-33).                            *)
(***************************************************************************)
\* at most this many mirrors in a priority list
MaxMirrors == 4

\* the known mirror identifiers
KnownMirrors == {"gb", "jade", "wegfan", "otobot"}

\* default_value of --mirror-priority
DefaultMirrors == <<"otobot", "gb", "jade", "wegfan">>

\* priority lists: the known identifiers, or some of them, in any order
PriorityLists ==
    {l \in SeqsUpTo(KnownMirrors, MaxMirrors) : NoDuplicates(l)}

\* the mirror at a position of the priority list
MirrorAtMutant(list, i) == list[Len(list) + 1 - i]
MirrorAt(list, i) == list[i]

\* the list is exhausted once its last mirror has been tried
ExhaustedMutant(i, list) == i + 1 >= Len(list)
Exhausted(i, list) == i >= Len(list)

InitMirror ==
    /\ mirrors \in PriorityLists
    /\ current = 1
    /\ tried = <<>>
    /\ answers = <<>>
    /\ mpc = "trying"
    /\ mresult = "none"
    /\ IdleResolve /\ IdleDownload /\ IdlePool
    /\ IdleRepeat /\ IdleRun /\ IdleUpdate /\ IdleCell /\ IdleLocal /\ IdleCall /\ IdleDest /\ IdleCommand

\* one request to the current mirror: on a network error or an error status
\* the next mirror is tried, or the item fails when there is none left
TryMirror ==
    /\ mpc = "trying"
    /\ tried' = Append(tried, MirrorAt(mirrors, current))
    /\ \E ok \in BOOLEAN :
         /\ answers' = Append(answers, IF ok THEN "ok" ELSE "failed")
         /\ IF ok THEN mpc' = "body" /\ UNCHANGED <<current, mresult>>
            ELSE IF Exhausted(current, mirrors)
                 THEN mpc' = "done" /\ mresult' = "Request" /\ UNCHANGED current
                 ELSE current' = current + 1 /\ UNCHANGED <<mpc, mresult>>
    /\ UNCHANGED mirrors
    /\ UNCHANGED outsideMirror

\* the mirror answered: the body is streamed and verified, which settles the item
MirrorBody ==
    /\ mpc = "body"
    /\ mpc' = "done"
    /\ mresult' \in {"Ok", "InvalidChecksum"}
    /\ UNCHANGED <<mirrors, current, tried, answers>>
    /\ UNCHANGED outsideMirror

NextMirror ==
    \/ TryMirror
    \/ MirrorBody

SpecMirror == InitMirror /\ [][NextMirror]_vars

(***************************************************************************)
(* main.rs run: the install and the update command, from the command line  *)
(* to the calls of download_mods_concurrently.                             *)
(***************************************************************************)
\* at most this many mod names for an id, and at most this many updates
MaxModNames == 2

\* fetch_remote_data: the stage that follows a stage that succeeded
NextStage(st) ==
    CASE st = "pending" -> "responded"
      [] st = "responded" -> "read"
      [] st = "read" -> "ok"

Running(st) == st \in {"pending", "responded", "read"}

\* awaiting one fetch with `?`
Await(r) ==
    IF r = "failed" THEN "Err" ELSE IF r = "ok" THEN "Ok" ELSE "Pending"

\* both fetches awaited to their end before an error is reported
TryJoinAllMutant(r, g) ==
    IF r \in {"pending", "responded", "read"} \/ g \in {"pending", "responded", "read"}
    THEN "Pending"
    ELSE IF r = "failed" \/ g = "failed" THEN "Err" ELSE "Ok"

\* tokio::try_join!(RemoteModRegistry::fetch, DependencyGraph::fetch)
TryJoinMutant(r, g) == Await(r)
TryJoin(r, g) ==
    IF r = "failed" \/ g = "failed" THEN "Err"
    ELSE IF r = "ok" /\ g = "ok" THEN "Ok" ELSE "Pending"

\* what the command waits for before it goes on
Fetched(cmd, r, g) == IF cmd = "install" THEN TryJoin(r, g) ELSE Await(r)

\* a fetch that was still running when the run gave up is dropped
Dropped(st) == IF Running(st) THEN "dropped" ELSE st

InitRun ==
    /\ command \in {"install", "update"}
    /\ installFlag \in (IF command = "update" THEN BOOLEAN ELSE {FALSE})
    /\ pendingNames \in 0..MaxModNames
    /\ regTask = "unused"
    /\ graphTask = "unused"
    /\ spinner = "none"
    /\ rpc = "start"
    /\ rresult = "none"
    /\ issued = 0
    /\ IdleResolve /\ IdleDownload /\ IdlePool /\ IdleMirror
    /\ IdleRepeat /\ IdleUpdate /\ IdleCell /\ IdleLocal /\ IdleCall /\ IdleDest /\ IdleCommand

\* main.rs:169-174 and fetch.rs:33-38: the id is taken from the URL, then
\* both fetches are started under one spinner
StartInstall ==
    /\ rpc = "start" /\ command = "install"
    /\ \E parsed \in BOOLEAN :
         IF parsed
         THEN /\ spinner' = "spinning"
              /\ regTask' = "pending"
              /\ graphTask' = "pending"
              /\ rpc' = "fetching"
              /\ UNCHANGED rresult
         ELSE /\ rpc' = "returned"
              /\ rresult' = "Err"
              /\ UNCHANGED <<spinner, regTask, graphTask>>
    /\ UNCHANGED <<command, installFlag, issued, pendingNames>>
    /\ UNCHANGED outsideRun

\* main.rs:225-232: the updater blacklist is read, then the registry fetch
\* is started under a spinner
StartUpdate ==
    /\ rpc = "start" /\ command = "update"
    /\ \E readable \in BOOLEAN :
         IF readable
         THEN /\ spinner' = "spinning"
              /\ regTask' = "pending"
              /\ rpc' = "fetching"
              /\ UNCHANGED rresult
         ELSE /\ rpc' = "returned"
              /\ rresult' = "Err"
              /\ UNCHANGED <<spinner, regTask>>
    /\ UNCHANGED <<command, installFlag, graphTask, issued, pendingNames>>
    /\ UNCHANGED outsideRun

\* fetch.rs:17-21: one step of the registry fetch: the request with its
\* status, the body, the decoding; each can fail
RegistryFetchStep ==
    /\ rpc = "fetching"
    /\ Running(regTask)
    /\ Fetched(command, regTask, graphTask) = "Pending"
    /\ \E ok \in BOOLEAN : regTask' = IF ok THEN NextStage(regTask) ELSE "failed"
    /\ UNCHANGED <<command, installFlag, graphTask, spinner, rpc, rresult, issued,
                   pendingNames>>
    /\ UNCHANGED outsideRun

\* fetch.rs:17-21: one step of the dependency graph fetch
GraphFetchStep ==
    /\ rpc = "fetching"
    /\ Running(graphTask)
    /\ Fetched(command, regTask, graphTask) = "Pending"
    /\ \E ok \in BOOLEAN : graphTask' = IF ok THEN NextStage(graphTask) ELSE "failed"
    /\ UNCHANGED <<command, installFlag, regTask, spinner, rpc, rresult, issued,
                   pendingNames>>
    /\ UNCHANGED outsideRun

\* fetch.rs:38-48, main.rs:232-236: what was awaited is there
FetchSucceeded ==
    /\ rpc = "fetching"
    /\ Fetched(command, regTask, graphTask) = "Ok"
    /\ spinner' = "finished"
    /\ rpc' = "loaded"
    /\ UNCHANGED <<command, installFlag, regTask, graphTask, rresult, issued,
                   pendingNames>>
    /\ UNCHANGED outsideRun

\* fetch.rs:38 with main.rs:174, main.rs:232: the error of a fetch is returned by run
FetchFailed ==
    /\ rpc = "fetching"
    /\ Fetched(command, regTask, graphTask) = "Err"
    /\ regTask' = Dropped(regTask)
    /\ graphTask' = Dropped(graphTask)
    /\ spinner' = "dropped"
    /\ rpc' = "returned"
    /\ rresult' = "Err"
    /\ UNCHANGED <<command, installFlag, issued, pendingNames>>
    /\ UNCHANGED outsideRun

\* main.rs:191-221: one mod name of the install loop: already installed,
\* nothing to download, or one call of download_mods_concurrently
InstallName ==
    /\ rpc = "loaded" /\ command = "install"
    /\ pendingNames > 0
    /\ \E todoKind \in {"installed", "nothing", "download"} :
         IF todoKind = "download"
         THEN /\ issued' = issued + 1
              /\ \E ok \in BOOLEAN :
                   IF ok THEN pendingNames' = pendingNames - 1 /\ UNCHANGED <<rpc, rresult>>
                   ELSE rpc' = "returned" /\ rresult' = "Err" /\ UNCHANGED pendingNames
         ELSE /\ pendingNames' = pendingNames - 1
              /\ UNCHANGED <<issued, rpc, rresult>>
    /\ UNCHANGED <<command, installFlag, regTask, graphTask, spinner>>
    /\ UNCHANGED outsideRun

\* main.rs:178-181 and the end of the loop at main.rs:221: no name is left
InstallEnd ==
    /\ rpc = "loaded" /\ command = "install"
    /\ pendingNames = 0
    /\ rpc' = "returned"
    /\ rresult' = "Ok"
    /\ UNCHANGED <<command, installFlag, regTask, graphTask, spinner, issued, pendingNames>>
    /\ UNCHANGED outsideRun

\* main.rs:238-255: the updates are listed, and installed when --install is given
UpdateMods ==
    /\ rpc = "loaded" /\ command = "update"
    /\ IF pendingNames > 0 /\ installFlag
       THEN /\ issued' = issued + 1
            /\ \E ok \in BOOLEAN : rresult' = IF ok THEN "Ok" ELSE "Err"
       ELSE /\ rresult' = "Ok"
            /\ UNCHANGED issued
    /\ rpc' = "returned"
    /\ UNCHANGED <<command, installFlag, regTask, graphTask, spinner, pendingNames>>
    /\ UNCHANGED outsideRun

NextRun ==
    \/ StartInstall
    \/ StartUpdate
    \/ RegistryFetchStep
    \/ GraphFetchStep
    \/ FetchSucceeded
    \/ FetchFailed
    \/ InstallName
    \/ InstallEnd
    \/ UpdateMods

SpecRun == InitRun /\ [][NextRun]_vars

(***************************************************************************)
(* local.rs: LocalMod::checksum, called any number of times on one local   *)
(* mod while the archive file may be rewritten.                            *)
(***************************************************************************)
\* at most this many calls of checksum()
MaxCalls == 5

\* the contents an archive file may have
Bodies == {<<1>>, <<2>>, <<1, 2>>}

\* fileutil::hash_file: the checksum of the whole file, or an I/O error
hash_file(content, io) == IF io THEN <<"Ok", ChecksumOf(content)>> ELSE <<"Err">>

\* OnceCell::get_or_try_init: c is the cell, r what the closure returns if it
\* runs; the closure runs only on an empty cell and only a success is stored
get_or_try_initMutant(c, r) ==
    IF c # <<>> THEN [cell |-> c, value |-> <<"Ok", c[1]>>, ran |-> FALSE]
    ELSE [cell |-> <<>>, value |-> r, ran |-> TRUE]
get_or_try_init(c, r) ==
    IF c # <<>> THEN [cell |-> c, value |-> <<"Ok", c[1]>>, ran |-> FALSE]
    ELSE IF r[1] = "Ok" THEN [cell |-> <<r[2]>>, value |-> r, ran |-> TRUE]
    ELSE [cell |-> <<>>, value |-> r, ran |-> TRUE]

InitCell ==
    /\ cell = <<>>
    /\ fileBody \in Bodies
    /\ returns = <<>>
    /\ hashRuns = <<>>
    /\ IdleResolve /\ IdleDownload /\ IdlePool /\ IdleMirror
    /\ IdleRepeat /\ IdleRun /\ IdleUpdate /\ IdleLocal /\ IdleCall /\ IdleDest /\ IdleCommand

\* local.rs:121-125: one call of checksum()
CallChecksum ==
    /\ Len(returns) < MaxCalls
    /\ \E io \in BOOLEAN :
         LET r == hash_file(fileBody, io)
             res == get_or_try_init(cell, r)
         IN /\ cell' = res.cell
            /\ returns' = Append(returns, res.value)
            /\ hashRuns' = IF res.ran THEN Append(hashRuns, r) ELSE hashRuns
    /\ UNCHANGED fileBody
    /\ UNCHANGED outsideCell

\* the archive file is replaced, as an update of the mod does
RewriteFile ==
    /\ \E b \in Bodies \ {fileBody} : fileBody' = b
    /\ UNCHANGED <<cell, returns, hashRuns>>
    /\ UNCHANGED outsideCell

NextCell ==
    \/ CallChecksum
    \/ RewriteFile

SpecCell == InitCell /\ [][NextCell]_vars

(***************************************************************************)
(* update.rs: check_updates.                                               *)
(***************************************************************************)
\* at most this many local mods
MaxLocal == 3

\* the names of the local mods
LocalNames == {"A", "B"}

\* the contents of the archive files of the local mods
LocalBodies == {<<1>>, <<1, 2>>}

\* a registry entry with its acceptable checksums
RemoteModInfoWith(n, cs) ==
    [download_url |-> <<"https://example.com/", n>>, checksums |-> cs]

\* the checksum lists of the generated registry entries
RegistryChecksums ==
    {<<ChecksumOf(<<1>>)>>, <<ToUpper(ChecksumOf(<<1>>))>>,
     <<ChecksumOf(<<1, 2>>), ChecksumOf(<<1>>)>>, <<ChecksumOf(<<1, 2>>)>>}

\* a local mod as LocalMod::from_path builds it
NewLocalMod(n, b) == [name |-> n, body |-> b, cell |-> <<>>]

\* sequences over S of length 0..n
SeqsFromZero(S, n) == {<<>>} \cup SeqsUpTo(S, n)

\* the concatenation of a sequence of sequences
RECURSIVE Flatten(_)
Flatten(ss) == IF ss = <<>> THEN <<>> ELSE Head(ss) \o Flatten(Tail(ss))

\* update.rs:17-38: the closure of filter_map, given the registry entry of
\* the name (if any) and what checksum() returned
ExamineMutant(name, remote, checksum) ==
    IF remote = <<>> THEN <<>>
    ELSE IF checksum[1] = "Err" THEN <<<<name, remote[1]>>>>
    ELSE IF has_matching_hash(remote[1].checksums, checksum[2]) THEN <<>>
    ELSE <<<<name, remote[1]>>>>
Examine(name, remote, checksum) ==
    IF remote = <<>> THEN <<>>
    ELSE IF checksum[1] = "Err" THEN <<>>
    ELSE IF has_matching_hash(remote[1].checksums, checksum[2]) THEN <<>>
    ELSE <<<<name, remote[1]>>>>

InitUpdate ==
    /\ local_mods \in SeqsFromZero({NewLocalMod(n, b) : n \in LocalNames, b \in LocalBodies},
                                    MaxLocal)
    /\ \E listed \in SUBSET LocalNames :
          mod_registry \in
              {[n \in listed |-> RemoteModInfoWith(n, f[n])] :
                 f \in [listed -> RegistryChecksums]}
    /\ examined = [i \in 1..Len(local_mods) |-> "pending"]
    /\ failed = {}
    /\ updates = <<>>
    /\ upc = "scanning"
    /\ IdleResolve /\ IdleDownload /\ IdlePool /\ IdleMirror
    /\ IdleRepeat /\ IdleRun /\ IdleCell /\ IdleLocal /\ IdleCall /\ IdleDest /\ IdleCommand

\* update.rs:17-38: the closure runs on one local mod; the mods are examined
\* in parallel, in any order
ExamineMod(i) ==
    /\ upc = "scanning"
    /\ examined[i] = "pending"
    /\ LET m == local_mods[i]
           remote == get_mod_info_by_name(mod_registry, m.name)
       IN IF remote = <<>>
          THEN /\ examined' = [examined EXCEPT ![i] = Examine(m.name, remote, <<"Err">>)]
               /\ UNCHANGED <<local_mods, failed>>
          ELSE \E io \in BOOLEAN :
                 LET res == get_or_try_init(m.cell, hash_file(m.body, io))
                 IN /\ local_mods' = [local_mods EXCEPT ![i].cell = res.cell]
                    /\ examined' = [examined EXCEPT ![i] = Examine(m.name, remote, res.value)]
                    /\ failed' = IF res.value[1] = "Err" THEN failed \cup {i} ELSE failed
    /\ UNCHANGED <<mod_registry, updates, upc>>
    /\ UNCHANGED outsideUpdate

\* update.rs:39: collect() keeps the order of the local mods
CollectUpdates ==
    /\ upc = "scanning"
    /\ \A i \in 1..Len(local_mods) : examined[i] # "pending"
    /\ updates' = Flatten(examined)
    /\ upc' = "done"
    /\ UNCHANGED <<local_mods, mod_registry, examined, failed>>
    /\ UNCHANGED outsideUpdate

NextUpdate ==
    \/ \E i \in 1..Len(local_mods) : ExamineMod(i)
    \/ CollectUpdates

SpecUpdate == InitUpdate /\ [][NextUpdate]_vars

(***************************************************************************)
(* local.rs: LocalMod::load_local_mods with LocalMod::from_path,           *)
(* zip::find_manifest_in_zip and ModManifest::from_slice.                  *)
(***************************************************************************)
\* at most this many archives in the mods directory
MaxArchives == 2

\* the UTF-8 byte order mark
Bom == <<"EF", "BB", "BF">>

\* the YAML text of one manifest entry with the given name
Entry(n) == <<"-", n>>

\* the archives the mods directory may hold: the state of the ZIP file, the
\* names of its entries, and the content of its manifest-like entry
Archive(z, e, b) == [zip |-> z, entries |-> e, bytes |-> b]

Archives ==
    {Archive("ok", {"everest.yaml", "Maps/1.bin"}, Entry("A")),
     Archive("ok", {"everest.yaml"}, Bom \o Entry("B")),
     Archive("ok", {"everest.yaml"}, Entry("A") \o Entry("B")),
     Archive("ok", {"everest.yml"}, Entry("A")),
     Archive("ok", {"Maps/1.bin"}, <<>>),
     Archive("ok", {"everest.yaml"}, <<"[", "]">>),
     Archive("ok", {"everest.yaml"}, <<"A", ":">>),
     Archive("broken", {}, <<>>),
     Archive("corrupt", {"everest.yaml"}, Entry("A")),
     Archive("unreadable", {"everest.yaml"}, Entry("A"))}

\* bytes.starts_with(prefix)
StartsWith(bytes, prefix) ==
    /\ Len(bytes) >= Len(prefix)
    /\ SubSeq(bytes, 1, Len(prefix)) = prefix

\* local.rs:222-224: the byte order mark is removed if present
StripBom(bytes) ==
    IF StartsWith(bytes, Bom) THEN SubSeq(bytes, Len(Bom) + 1, Len(bytes)) ELSE bytes

\* serde_yaml_ng::from_slice::<VecDeque<ModManifest>>: a sequence of entries,
\* the empty sequence "[]", or a syntax error
IsEntryList(bytes) ==
    /\ Len(bytes) > 0
    /\ Len(bytes) % 2 = 0
    /\ \A i \in 1..Len(bytes) :
          IF i % 2 = 1 THEN bytes[i] = "-" ELSE bytes[i] \in Mods

ParseYaml(bytes) ==
    IF bytes = <<"[", "]">> THEN <<"Ok", <<>>>>
    ELSE IF IsEntryList(bytes)
    THEN <<"Ok", [k \in 1..(Len(bytes) \div 2) |-> [name |-> bytes[2 * k]]]>>
    ELSE <<"Err", "Parse">>

\* pop_back in place of pop_front
from_slicePopBackMutant(yaml_bytes) ==
    LET parsed == ParseYaml(yaml_bytes) IN
    IF parsed[1] = "Err" THEN parsed
    ELSE IF parsed[2] = <<>> THEN <<"Err", "Invalid">>
    ELSE <<"Ok", parsed[2][Len(parsed[2])]>>

\* ModManifest::from_slice: the first entry of the decoded list
from_sliceMutant(yaml_bytes) ==
    LET parsed == ParseYaml(yaml_bytes) IN
    IF parsed[1] = "Err" THEN parsed
    ELSE IF parsed[2] = <<>> THEN <<"Ok", [name |-> ""]>>
    ELSE <<"Ok", Head(parsed[2])>>
from_slice(yaml_bytes) ==
    LET parsed == ParseYaml(yaml_bytes) IN
    IF parsed[1] = "Err" THEN parsed
    ELSE IF parsed[2] = <<>> THEN <<"Err", "Invalid">>
    ELSE <<"Ok", Head(parsed[2])>>

\* zip::find_manifest_in_zip
find_manifest_in_zip(a) ==
    IF a.zip = "broken" THEN <<"Err", "Zip">>
    ELSE IF a.zip = "corrupt" THEN <<"Err", "Zip">>
    ELSE IF "everest.yaml" \notin a.entries THEN <<"Err", "NotFound">>
    ELSE IF a.zip = "unreadable" THEN <<"Err", "Zip">>
    ELSE <<"Ok", StripBom(a.bytes)>>

\* LocalMod::from_path
from_path(mod_path, a) ==
    LET manifest_bytes == find_manifest_in_zip(a) IN
    IF manifest_bytes[1] = "Err" THEN manifest_bytes
    ELSE LET manifest == from_slice(manifest_bytes[2]) IN
         IF manifest[1] = "Err" THEN manifest
         ELSE <<"Ok", [location |-> mod_path, manifest |-> manifest[2], cell |-> <<>>]>>

\* local.rs:156-170: what is logged for a result of from_path
LogLevel(res) ==
    IF res[1] = "Ok" THEN "none"
    ELSE IF res[2] = "NotFound" THEN "warn" ELSE "error"

\* the mods of the results that are Ok, in order
RECURSIVE FilterOk(_)
FilterOk(rs) ==
    IF rs = <<>> THEN <<>>
    ELSE (IF Head(rs)[1] = "Ok" THEN <<Head(rs)[2]>> ELSE <<>>) \o FilterOk(Tail(rs))

InitLocal ==
    /\ archive_paths \in SeqsFromZero(Archives, MaxArchives)
    /\ loaded = [i \in 1..Len(archive_paths) |-> "pending"]
    /\ logged = [i \in 1..Len(archive_paths) |-> "none"]
    /\ loadedMods = <<>>
    /\ lpc = "loading"
    /\ IdleResolve /\ IdleDownload /\ IdlePool /\ IdleMirror
    /\ IdleRepeat /\ IdleRun /\ IdleUpdate /\ IdleCell /\ IdleCall /\ IdleDest /\ IdleCommand

\* local.rs:156-170: the closure runs on one archive path; the archives are
\* read in parallel, in any order
LoadArchive(i) ==
    /\ lpc = "loading"
    /\ loaded[i] = "pending"
    /\ LET res == from_path(i, archive_paths[i]) IN
         /\ loaded' = [loaded EXCEPT ![i] = res]
         /\ logged' = [logged EXCEPT ![i] = LogLevel(res)]
    /\ UNCHANGED <<archive_paths, loadedMods, lpc>>
    /\ UNCHANGED outsideLocal

\* local.rs:171-174: collect() keeps the order of the archive paths
CollectMods ==
    /\ lpc = "loading"
    /\ \A i \in 1..Len(archive_paths) : loaded[i] # "pending"
    /\ loadedMods' = FilterOk(loaded)
    /\ lpc' = "done"
    /\ UNCHANGED <<archive_paths, loaded, logged>>
    /\ UNCHANGED outsideLocal

NextLocal ==
    \/ \E i \in 1..Len(archive_paths) : LoadArchive(i)
    \/ CollectMods

SpecLocal == InitLocal /\ [][NextLocal]_vars

(***************************************************************************)
(* One call of a function on one input.                                    *)
(***************************************************************************)
InitCall(name, inputs) ==
    /\ callee = name
    /\ argument \in inputs
    /\ returned = <<>>
    /\ IdleResolve /\ IdleDownload /\ IdlePool /\ IdleMirror /\ IdleRepeat /\ IdleRun
    /\ IdleUpdate /\ IdleCell /\ IdleLocal /\ IdleDest /\ IdleCommand

\* the call of the function returns the value
Return(name, value) ==
    /\ callee = name
    /\ returned = <<>>
    /\ returned' = <<value>>
    /\ UNCHANGED <<callee, argument>>
    /\ UNCHANGED outsideCall

(***************************************************************************)
(* manifest.rs, local.rs: ModManifest::from_slice on a manifest document.  *)
(***************************************************************************)
\* a document has at most this many tokens
MaxDocLen == 4

\* the tokens of a document: the entry marker, names, and flow punctuation
DocTokens == {"-", "A", "B", ":", "[", "]"}

Documents == SeqsFromZero(DocTokens, MaxDocLen)

InitFromSlice == InitCall("from_slice", Documents)

CallFromSlice == Return("from_slice", from_slice(argument))

NextFromSlice == CallFromSlice

SpecFromSlice == InitFromSlice /\ [][NextFromSlice]_vars

(***************************************************************************)
(* cli.rs: extract_id on a URL; a URL is its sequence of characters.       *)
(***************************************************************************)
\* at most this many characters after the head of a URL
MaxTail == 3

\* cli.rs:80
VALID_MOD_PAGE_URL_PREFIX ==
    <<"h", "t", "t", "p", "s", ":", "/", "/", "g", "a", "m", "e", "b", "a", "n", "a",
      "n", "a", ".", "c", "o", "m", "/", "m", "o", "d", "s", "/">>

\* the characters that follow the head of a URL
TailChars == {"1", "a", "/", "?", "#"}

\* heads of URLs: every prefix of the valid prefix, the valid prefix with one
\* character replaced, and the valid prefix after another character
UrlHeads ==
    LET p == VALID_MOD_PAGE_URL_PREFIX IN
    {SubSeq(p, 1, k) : k \in 0..Len(p)}
        \cup {[p EXCEPT ![k] = c] : k \in 1..Len(p), c \in {"x", "S"}}
        \cup {<<c>> \o p : c \in {" ", "x"}}

Urls == {h \o t : h \in UrlHeads, t \in SeqsFromZero(TailChars, MaxTail)}

\* str::strip_prefix: <<rest>> when the string starts with the prefix, else <<>>
strip_prefix(str, prefix) ==
    IF StartsWith(str, prefix) THEN <<SubSeq(str, Len(prefix) + 1, Len(str))>> ELSE <<>>

\* the guard `if !id.is_empty()` left out
extract_idMutant(url) ==
    LET id_str == strip_prefix(url, VALID_MOD_PAGE_URL_PREFIX) IN
    IF id_str # <<>> THEN <<"Ok", id_str[1]>>
    ELSE <<"Err", "InvalidPrefix", url>>

\* cli.rs:92-101
extract_id(url) ==
    LET id_str == strip_prefix(url, VALID_MOD_PAGE_URL_PREFIX) IN
    IF id_str # <<>> /\ id_str[1] # <<>> THEN <<"Ok", id_str[1]>>
    ELSE IF id_str # <<>> THEN <<"Err", "NoIdSegment">>
    ELSE <<"Err", "InvalidPrefix", url>>

InitExtractId == InitCall("extract_id", Urls)

CallExtractId == Return("extract_id", extract_id(argument))

NextExtractId == CallExtractId

SpecExtractId == InitExtractId /\ [][NextExtractId]_vars

(***************************************************************************)
(* download/util.rs: parse_mod_page_url.  A URL text is a sequence of      *)
(* tokens: a scheme, "://", a host, then "/" and the characters of the     *)
(* path segments, then possibly "?" or "#" and what follows.               *)
(***************************************************************************)
\* a path has at most this many segments
MaxSegments == 2

Digits == <<"0", "1", "2", "3", "4", "5", "6", "7", "8", "9">>

DigitOf(c) == CHOOSE d \in 0..9 : Digits[d + 1] = c

IsDigit(c) == \E d \in 1..10 : Digits[d] = c

\* u32::MAX in decimal
U32MaxText == <<"4", "2", "9", "4", "9", "6", "7", "2", "9", "5">>

\* texts in the place of the mod ID
IdTexts ==
    {<<"1">>, <<"1", "2", "3", "4", "5">>, <<"+", "5">>, <<"0", "0", "7">>,
     <<"a", "b", "c">>, <<"1", "a">>, <<"-", "1">>, <<"+">>,
     U32MaxText, [U32MaxText EXCEPT ![10] = "6"], U32MaxText \o <<"0">>,
     <<"0">> \o [U32MaxText EXCEPT ![1] = "5"]}

\* the segments of the paths
SegmentTexts == {<<"mods">>, <<"mod">>, <<>>} \cup IdTexts

SchemeTexts == {<<"https", "://">>, <<"http", "://">>, <<"HTTPS", "://">>,
                <<"ftp", "://">>, <<>>}

HostTexts == {"gamebanana.com", "GameBanana.com", "example.com", "www.gamebanana.com"}

\* the text of a path: every segment after a "/"
RECURSIVE PathText(_)
PathText(segs) ==
    IF segs = <<>> THEN <<>> ELSE <<"/">> \o Head(segs) \o PathText(Tail(segs))

PageUrls ==
    {s \o <<h>> \o PathText(p) \o q :
        s \in SchemeTexts, h \in HostTexts,
        p \in SeqsFromZero(SegmentTexts, MaxSegments),
        q \in {<<>>, <<"?", "1">>, <<"#", "1">>}}

\* the parser lower-cases scheme and host
AsciiLowerToken(t) ==
    CASE t = "HTTPS" -> "https"
      [] t = "GameBanana.com" -> "gamebanana.com"
      [] OTHER -> t

\* the text before the first "?" or "#"
RECURSIVE BeforeQuery(_)
BeforeQuery(text) ==
    IF text = <<>> \/ Head(text) \in {"?", "#"} THEN <<>>
    ELSE <<Head(text)>> \o BeforeQuery(Tail(text))

\* Url::path_segments: the text after the leading "/" split at every "/"
RECURSIVE SplitSegments(_, _)
SplitSegments(text, seg) ==
    IF text = <<>> THEN <<seg>>
    ELSE IF Head(text) = "/" THEN <<seg>> \o SplitSegments(Tail(text), <<>>)
    ELSE SplitSegments(Tail(text), Append(seg, Head(text)))

\* Url::parse: a text without a scheme is a relative URL and is refused; the
\* empty path of an http(s) or ftp URL is "/"
UrlParse(text) ==
    IF Len(text) < 3 \/ text[2] # "://" THEN <<"Err">>
    ELSE LET path == BeforeQuery(SubSeq(text, 4, Len(text))) IN
         <<"Ok", [scheme |-> AsciiLowerToken(text[1]),
                  host |-> AsciiLowerToken(text[3]),
                  segments |-> IF path = <<>> THEN <<<<>>>>
                               ELSE SplitSegments(Tail(path), <<>>)]>>

\* the value of a u32 as two sixteen-bit limbs <<high, low>>, after one more digit
PushDigit(v, d) == <<v[1] * 10 + (v[2] * 10 + d) \div Limb, (v[2] * 10 + d) % Limb>>

\* str::parse::<u32>, the digits: an overflow wraps around
RECURSIVE ParseDigitsMutant(_, _)
ParseDigitsMutant(s, v) ==
    IF s = <<>> THEN <<"Ok", v>>
    ELSE IF ~IsDigit(Head(s)) THEN <<"Err">>
    ELSE LET w == PushDigit(v, DigitOf(Head(s)))
         IN ParseDigitsMutant(Tail(s), <<w[1] % Limb, w[2]>>)

\* str::parse::<u32>, the digits: every digit is accumulated with checked
\* arithmetic, so a value above u32::MAX is an error
RECURSIVE ParseDigits(_, _)
ParseDigits(s, v) ==
    IF s = <<>> THEN <<"Ok", v>>
    ELSE IF ~IsDigit(Head(s)) THEN <<"Err">>
    ELSE LET w == PushDigit(v, DigitOf(Head(s)))
         IN IF w[1] >= Limb THEN <<"Err">> ELSE ParseDigits(Tail(s), w)

\* str::parse::<u32>: an optional "+", then at least one digit
parse_u32(s) ==
    LET digits == IF s # <<>> /\ Head(s) = "+" THEN Tail(s) ELSE s IN
    IF digits = <<>> THEN <<"Err">> ELSE ParseDigits(digits, <<0, 0>>)

\* download/util.rs:12-46
parse_mod_page_url(page_url_str) ==
    LET parsed == UrlParse(page_url_str) IN
    IF parsed[1] = "Err" THEN <<"Err", "InvalidUrl">>
    ELSE LET page_url == parsed[2]
             segments == page_url.segments
         IN  IF page_url.scheme \notin {"http", "https"} THEN <<"Err", "UnsupportedScheme">>
             ELSE IF page_url.host # "gamebanana.com"
             THEN <<"Err", "InvalidGameBananaUrl">>
             ELSE IF Len(segments) >= 2 /\ segments[1] = <<"mods">>
             THEN LET id == parse_u32(segments[2])
                  IN IF id[1] = "Err" THEN <<"Err", "InvalidModId">> ELSE <<"Ok", id[2]>>
             ELSE <<"Err", "InvalidGameBananaUrl">>

InitParseUrl == InitCall("parse_mod_page_url", PageUrls)

CallParseUrl == Return("parse_mod_page_url", parse_mod_page_url(argument))

NextParseUrl == CallParseUrl

SpecParseUrl == InitParseUrl /\ [][NextParseUrl]_vars

(***************************************************************************)
(* download/util.rs: sanitize.  A name is its sequence of characters;      *)
(* "U+00E9" is a character of two bytes, every other one of one byte.      *)
(***************************************************************************)
\* a short name has at most this many characters
MaxNameLen == 3

\* download/util.rs:81-82: the limit on the length in bytes
NameLimit == 255

\* download/util.rs:53
BAD_CHARS == {"/", "\\", "*", "?", ":", ";"}

\* char::is_whitespace, among the characters of the names
WhiteSpace == {" ", "TAB", "LF", "CR"}

NameChars == {"a", " ", ".", "/", ";", "LF", "NUL", "U+00E9"}

\* c repeated n times
Repeat(c, n) == [i \in 1..n |-> c]

\* names around the limit: one character repeated, then a short tail
LongNames ==
    {Repeat(c, n) \o t : c \in {"a", "U+00E9"},
                         n \in {NameLimit \div 2, NameLimit \div 2 + 1, NameLimit - 1, NameLimit},
                         t \in SeqsFromZero({"a", " "}, 2)}

ModNames == SeqsFromZero(NameChars, MaxNameLen) \cup LongNames

\* the length of the UTF-8 encoding of a character
Utf8Len(c) == IF c = "U+00E9" THEN 2 ELSE 1

\* String::len: the length in bytes
ByteLen(s) == Len(s) + Cardinality({i \in 1..Len(s) : Utf8Len(s[i]) = 2})

\* the positions of the characters that are not whitespace
Inked(s) == {i \in 1..Len(s) : s[i] \notin WhiteSpace}

\* str::trim
Trim(s) ==
    IF Inked(s) = {} THEN <<>>
    ELSE SubSeq(s, CHOOSE i \in Inked(s) : \A j \in Inked(s) : i <= j,
                   CHOOSE i \in Inked(s) : \A j \in Inked(s) : i >= j)

\* str::strip_prefix('.').unwrap_or(trimmed)
StripDot(s) == IF s # <<>> /\ Head(s) = "." THEN Tail(s) ELSE s

IsKept(c) == c # "dropped"

\* split_whitespace().collect::<Vec<_>>().join(" "): the words, one space
\* between two words
JoinWords(s) ==
    LET t == Trim(s)
        marked == [i \in 1..Len(t) |->
                     IF t[i] \notin WhiteSpace THEN t[i]
                     ELSE IF t[i - 1] \notin WhiteSpace THEN " " ELSE "dropped"]
    IN  SelectSeq(marked, IsKept)

\* download/util.rs:61-79: CR, LF and NUL are dropped, a bad character
\* becomes an underscore
Replace(s) ==
    LET marked == [i \in 1..Len(s) |->
                     IF s[i] \in {"CR", "LF", "NUL"} THEN "dropped"
                     ELSE IF s[i] \in BAD_CHARS THEN "_" ELSE s[i]]
    IN  SelectSeq(marked, IsKept)

\* the prefixes of s that end at a character boundary, by their length in bytes
Boundary(s, n) == \E k \in 0..Len(s) : ByteLen(SubSeq(s, 1, k)) = n

\* String::truncate(n) on a string longer than n bytes: the first n bytes,
\* a panic when byte n is inside a character
Truncate(s, n) ==
    IF Boundary(s, n)
    THEN <<"Ok", SubSeq(s, 1, CHOOSE k \in 0..Len(s) : ByteLen(SubSeq(s, 1, k)) = n)>>
    ELSE <<"Panic">>

Unnamed == <<"u", "n", "n", "a", "m", "e", "d">>

\* download/util.rs:52-93: <<"Ok", name>>, or <<"Panic">>
sanitize(mod_name) ==
    LET trimmed == Trim(mod_name)
        without_dot == StripDot(trimmed)
        replaced == Replace(JoinWords(without_dot))
        cut == IF ByteLen(replaced) > NameLimit THEN Truncate(replaced, NameLimit)
               ELSE <<"Ok", replaced>>
    IN  IF cut[1] = "Panic" THEN cut
        ELSE IF cut[2] = <<>> THEN <<"Ok", Unnamed>>
        ELSE cut

InitSanitize == InitCall("sanitize", ModNames)

CallSanitize == Return("sanitize", sanitize(argument))

NextSanitize == CallSanitize

SpecSanitize == InitSanitize /\ [][NextSanitize]_vars

(***************************************************************************)
(* mod_registry.rs: find_mod_registry_from_url on a registry and a mod ID. *)
(***************************************************************************)
\* the entries of a registry carry the IDs 1..MaxId
MaxId == 2

\* mod_registry.rs:10-32: the fields of an entry that tell entries apart
RemoteModInfos == [version : {"1.0", "2.0"}, gamebanana_id : 1..MaxId]

\* the registries: a map from some of the names to entries
IdRegistries ==
    UNION {[D -> RemoteModInfos] : D \in SUBSET Mods}

\* the calls: a registry and the ID looked for, which no entry may carry
FindCalls == [mod_registry : IdRegistries, mod_id : 1..(MaxId + 1)]

\* the test on the ID left out of the closure
find_mod_registry_from_urlMutant(reg, mod_id) ==
    IF DOMAIN reg = {} THEN {<<"None">>}
    ELSE {<<"Some", n, reg[n]>> : n \in DOMAIN reg}

\* mod_registry.rs:66-73: what the call may return; a HashMap is iterated in
\* an unspecified order, so find yields any one of the entries with the ID
find_mod_registry_from_url(reg, mod_id) ==
    LET found == {n \in DOMAIN reg : reg[n].gamebanana_id = mod_id} IN
    IF found = {} THEN {<<"None">>}
    ELSE {<<"Some", n, reg[n]>> : n \in found}

InitFind == InitCall("find_mod_registry_from_url", FindCalls)

CallFind ==
    \E found \in find_mod_registry_from_url(argument.mod_registry, argument.mod_id) :
        Return("find_mod_registry_from_url", found)

NextFind == CallFind

SpecFind == InitFind /\ [][NextFind]_vars

(***************************************************************************)
(* download.rs: the destination files of the downloads of one run.  Every  *)
(* item runs download_mod; the file name comes from the response.  A name  *)
(* and a path segment are sequences of tokens of text.                     *)
(***************************************************************************)
\* number of downloads of the run
MaxDownloads == 2

Downloads == 1..MaxDownloads

\* the path segments of the final URL of a response; the path of an http(s)
\* URL is never empty, "/" has the one segment ""
PathChoices ==
    {<<<<>>>>,
     <<<<"a", ".zip">>>>,
     <<<<"1">>, <<"a", ".zip">>>>,
     <<<<"2">>, <<"a", ".zip">>>>,
     <<<<"a", ".zip">>, <<>>>>}

\* the ETag header of a response: absent, bytes that are not text, or a text
EtagChoices ==
    {<<"absent">>, <<"bytes">>,
     <<"text", <<"\"", "a", "\"">>>>,
     <<"text", <<"a">>>>,
     <<"text", <<"\"", "\"">>>>}

Responses == [segments : PathChoices, etag : EtagChoices]

\* the values Uuid::new_v4 can produce
Uuids == {<<"uuid", k>> : k \in Downloads}

\* str::trim_matches('"')
RECURSIVE TrimQuotes(_)
TrimQuotes(s) ==
    IF s # <<>> /\ Head(s) = "\"" THEN TrimQuotes(Tail(s))
    ELSE IF s # <<>> /\ s[Len(s)] = "\"" THEN TrimQuotes(SubSeq(s, 1, Len(s) - 1))
    ELSE s

\* download.rs:208-212: the last segment of the path, unless it is empty
extract_filename_from_url(segments) ==
    LET last == segments[Len(segments)] IN
    IF last # <<>> THEN <<last>> ELSE <<>>

\* download.rs:221-228: the header, when present and readable as text,
\* without the quotes around it and with ".zip" after it
extract_filename_from_etag(etag) ==
    IF etag[1] = "text" THEN <<TrimQuotes(etag[2]) \o <<".zip">>>> ELSE <<>>

\* the name from the ETag header preferred to the name from the URL
determine_filenameMutant(response, uuid) ==
    LET filename_from_url == extract_filename_from_url(response.segments)
        filename_from_etag == extract_filename_from_etag(response.etag)
    IN  IF filename_from_etag # <<>> THEN filename_from_etag[1]
        ELSE IF filename_from_url # <<>> THEN filename_from_url[1]
        ELSE <<"unknown-mod_", uuid, ".zip">>

\* download.rs:191-199; uuid is what Uuid::new_v4 returns if it is called
determine_filename(response, uuid) ==
    LET filename_from_url == extract_filename_from_url(response.segments)
        filename_from_etag == extract_filename_from_etag(response.etag)
    IN  IF filename_from_url # <<>> THEN filename_from_url[1]
        ELSE IF filename_from_etag # <<>> THEN filename_from_etag[1]
        ELSE <<"unknown-mod_", uuid, ".zip">>

\* Uuid::new_v4 is called only when neither name is there
CallsUuid(response) ==
    /\ extract_filename_from_url(response.segments) = <<>>
    /\ extract_filename_from_etag(response.etag) = <<>>

InitDest ==
    /\ responses \in [Downloads -> Responses]
    /\ uuids = {}
    /\ destination = [i \in Downloads |-> <<>>]
    /\ dstage = [i \in Downloads |-> "requested"]
    /\ IdleResolve /\ IdleDownload /\ IdlePool /\ IdleMirror /\ IdleRepeat /\ IdleRun
    /\ IdleUpdate /\ IdleCell /\ IdleLocal /\ IdleCall /\ IdleCommand

\* download.rs:118-134: the name is determined, the file created at
\* download_dir.join(filename), and the body starts to be written to it
DetermineFilename(i) ==
    /\ dstage[i] = "requested"
    /\ IF CallsUuid(responses[i])
       THEN \E u \in Uuids \ uuids :
              /\ destination' =
                     [destination EXCEPT ![i] = <<determine_filename(responses[i], u)>>]
              /\ uuids' = uuids \cup {u}
       ELSE /\ destination' =
                     [destination EXCEPT ![i] = <<determine_filename(responses[i], <<>>)>>]
            /\ uuids' = uuids
    /\ dstage' = [dstage EXCEPT ![i] = "writing"]
    /\ UNCHANGED responses
    /\ UNCHANGED outsideDest

\* download.rs:137-170: the body has been written and verified, or the
\* download has failed
FinishDownload(i) ==
    /\ dstage[i] = "writing"
    /\ dstage' = [dstage EXCEPT ![i] = "done"]
    /\ UNCHANGED <<responses, uuids, destination>>
    /\ UNCHANGED outsideDest

NextDest ==
    \/ \E i \in Downloads : DetermineFilename(i)
    \/ \E i \in Downloads : FinishDownload(i)

SpecDest == InitDest /\ [][NextDest]_vars

(***************************************************************************)
(* download.rs:148-149: the digest formatted as the checksum string.       *)
(***************************************************************************)
\* values of the sixteen-bit limbs of a digest: the extremes, single digits,
\* values with zero digits inside and in front
LimbSamples == {0, 1, 10, 255, 256, 4096, 43981, 2 ^ 16 - 1}

\* the 64-bit digests, four limbs each
Digests == [1..4 -> LimbSamples]

InitFormat == InitCall("format", Digests)

CallFormat == Return("format", FormatHex16(Xxh64Digest(argument)))

NextFormat == CallFormat

SpecFormat == InitFormat /\ [][NextFormat]_vars

(***************************************************************************)
(* download/util.rs: sanitize applied to a name, then to its own result.   *)
(***************************************************************************)
InitSanitizeTwice == InitCall("sanitize twice", ModNames)

\* the first call
SanitizeOnce ==
    /\ callee = "sanitize twice"
    /\ returned = <<>>
    /\ returned' = <<sanitize(argument)>>
    /\ UNCHANGED <<callee, argument>>
    /\ UNCHANGED outsideCall

\* the second call, on the name the first one returned
SanitizeAgain ==
    /\ callee = "sanitize twice"
    /\ Len(returned) = 1
    /\ returned[1][1] = "Ok"
    /\ returned' = Append(returned, sanitize(returned[1][2]))
    /\ UNCHANGED <<callee, argument>>
    /\ UNCHANGED outsideCall

NextSanitizeTwice ==
    \/ SanitizeOnce
    \/ SanitizeAgain

SpecSanitizeTwice == InitSanitizeTwice /\ [][NextSanitizeTwice]_vars

(***************************************************************************)
(* One install or update command with its data: main.rs, the arms          *)
(* Commands::Install and Commands::Update.  An install command starts when *)
(* the registry and the graph are fetched and the names of the page id are *)
(* looked up; an update command starts when the local mods are loaded.     *)
(***************************************************************************)
\* the dependency edges a fetched graph is made of
CommandEdges ==
    {<<"A", "C">>, <<"B", "C">>, <<"A", "B">>, <<"B", "A">>, <<"C", "Everest">>}

\* the graphs a fetch may return
CommandGraphs == {GraphOf(E, {}) : E \in SUBSET CommandEdges}

\* the registries an install command may fetch: every name listed, or all but C
InstallRegistries ==
    {[n \in listed |-> RemoteModInfo(n)] : listed \in {Names, Names \ {"C"}}}

\* the registries an update command may fetch
UpdateRegistries ==
    UNION {{[n \in listed |-> RemoteModInfoWith(n, f[n])] :
              f \in [listed -> RegistryChecksums]} : listed \in SUBSET LocalNames}

\* sequences without repetition over S of length 0..n
DistinctSeqs(S, n) == {s \in SeqsFromZero(S, n) : NoDuplicates(s)}

\* a local mod: manifest name, location of the archive, content of the
\* archive, whether the archive can be read when it is hashed
LocalModAt(n, place, content, io) ==
    [name |-> n, location |-> place, body |-> content, readable |-> io]

\* the local mods an update command may find
LocalCandidates ==
    {LocalModAt("A", "A.zip", <<1>>, TRUE), LocalModAt("A", "A_old.zip", <<2>>, TRUE),
     LocalModAt("B", "B.zip", <<1>>, TRUE), LocalModAt("B", "B_old.zip", <<1, 2>>, FALSE)}

LocalLocations == {m.location : m \in LocalCandidates}

\* what read_updater_blacklist may return
BlacklistReads ==
    {<<"Err">>, <<"None">>} \cup {<<"Some", S>> : S \in SUBSET LocalLocations}

\* the file a download of a registry entry creates: the last segment of its URL
DestinationOf(info) == info.download_url[Len(info.download_url)]

\* the breadth-first traversal of check_dependencies, run to its end
RECURSIVE Traverse(_, _, _, _)
Traverse(g, q, seen, sofar) ==
    IF q = <<>> THEN sofar
    ELSE IF ShouldExpand(Head(q), seen)
         THEN Traverse(g, Tail(q) \o Enqueue(g, Head(q), seen \cup {Head(q)}),
                       seen \cup {Head(q)}, Append(sofar, Head(q)))
         ELSE Traverse(g, Tail(q), seen, sofar)

\* DependencyGraph::check_dependencies as main.rs:197-201 calls it
check_dependencies(g, mod_name, reg, inst) ==
    LookupAll(SubtractInstalled(ExcludeCoreResolve(Traverse(g, <<mod_name>>, {}, <<>>)),
                                inst), reg)

\* the names of a list of (name, registry entry) pairs
PairNames(pairs) == [i \in 1..Len(pairs) |-> pairs[i][1]]

\* main.rs:192: installed_mod_names.contains(mod_name)
IsInstalledMutant(inst, mod_name) == FALSE
IsInstalled(inst, mod_name) == mod_name \in inst

\* main.rs:217-220: the downloaded names join the installed names
BookkeepMutant(inst, downloadable_mods) == inst
Bookkeep(inst, downloadable_mods) == inst \cup Range(PairNames(downloadable_mods))

\* main.rs:226-228: local_mods.retain(|m| !updater_blacklist.contains(&m.location))
RetainMutant(mods, blacklist) == mods
Retain(mods, blacklist) == SelectSeq(mods, LAMBDA m : m.location \notin blacklist)

\* update.rs:9-40: the pairs of the local mods whose checksum is not among
\* the registry's, in the order of the local mods
check_updates(mods, reg) ==
    Flatten([i \in 1..Len(mods) |->
               LET remote == get_mod_info_by_name(reg, mods[i].name)
               IN Examine(mods[i].name, remote,
                          IF remote = <<>> THEN <<"Err">>
                          ELSE hash_file(mods[i].body, mods[i].readable))])

InitInstallCommand ==
    /\ subcommand = "install" /\ args_install = FALSE
    /\ loaded_registry \in InstallRegistries
    /\ loaded_graph \in CommandGraphs
    /\ mod_names \in DistinctSeqs(DOMAIN loaded_registry, MaxModNames)
    /\ next_name = 1
    /\ \E have \in SUBSET Mods :
         inventory = [i \in 1..Cardinality(have) |->
                        LocalModAt(SetToSeq(have)[i], SetToSeq(have)[i], <<1>>, TRUE)]
    /\ installed_mod_names = {inventory[i].name : i \in 1..Len(inventory)}
    /\ mods_dir = {inventory[i].location : i \in 1..Len(inventory)}
    /\ kept_mods = inventory
    /\ updater_blacklist = <<"None">>
    /\ available_updates = <<>>
    /\ batches = <<>>
    /\ cpc = "loop" /\ cresult = "none"

InitUpdateCommand ==
    /\ subcommand = "update" /\ args_install \in BOOLEAN
    /\ loaded_registry = <<>> /\ loaded_graph = <<>>
    /\ mod_names = <<>> /\ next_name = 1 /\ installed_mod_names = {}
    /\ \E have \in SubsetsUpTo(LocalCandidates, MaxLocal) : inventory = SetToSeq(have)
    /\ mods_dir = {inventory[i].location : i \in 1..Len(inventory)}
    /\ kept_mods = inventory
    /\ updater_blacklist \in BlacklistReads
    /\ available_updates = <<>>
    /\ batches = <<>>
    /\ cpc = "start" /\ cresult = "none"

InitCommand ==
    /\ InitInstallCommand \/ InitUpdateCommand
    /\ IdleResolve /\ IdleDownload /\ IdlePool /\ IdleMirror /\ IdleRepeat /\ IdleRun
    /\ IdleUpdate /\ IdleCell /\ IdleLocal /\ IdleCall /\ IdleDest

\* download_mods_concurrently on a batch: each artifact is written or not, and
\* the call returns Ok or an error
DownloadBatch(downloadable_mods, ok, arrivedFiles) ==
    /\ batches' = Append(batches, PairNames(downloadable_mods))
    /\ mods_dir' = mods_dir \cup arrivedFiles
    /\ cresult' = IF ok THEN cresult ELSE "Err"

\* the files a batch may create
BatchFiles(downloadable_mods) ==
    SUBSET {DestinationOf(downloadable_mods[i][2]) : i \in 1..Len(downloadable_mods)}

\* main.rs:179-183: no name is registered under the page id
NoModForId ==
    /\ subcommand = "install" /\ cpc = "loop"
    /\ mod_names = <<>>
    /\ cpc' = "returned" /\ cresult' = "Ok"
    /\ UNCHANGED <<subcommand, args_install, loaded_registry, loaded_graph, mod_names,
                   next_name, installed_mod_names, inventory, kept_mods,
                   updater_blacklist, available_updates, batches, mods_dir>>
    /\ UNCHANGED outsideCommand

\* main.rs:192-195: the name is installed already
SkipInstalledName ==
    /\ subcommand = "install" /\ cpc = "loop"
    /\ next_name <= Len(mod_names)
    /\ IsInstalled(installed_mod_names, mod_names[next_name])
    /\ next_name' = next_name + 1
    /\ UNCHANGED <<subcommand, args_install, loaded_registry, loaded_graph, mod_names,
                   installed_mod_names, inventory, kept_mods, updater_blacklist,
                   available_updates, batches, mods_dir, cpc, cresult>>
    /\ UNCHANGED outsideCommand

\* main.rs:197-206: nothing is missing for the name
NothingToInstall ==
    /\ subcommand = "install" /\ cpc = "loop"
    /\ next_name <= Len(mod_names)
    /\ ~IsInstalled(installed_mod_names, mod_names[next_name])
    /\ check_dependencies(loaded_graph, mod_names[next_name], loaded_registry,
                          installed_mod_names) = <<>>
    /\ next_name' = next_name + 1
    /\ UNCHANGED <<subcommand, args_install, loaded_registry, loaded_graph, mod_names,
                   installed_mod_names, inventory, kept_mods, updater_blacklist,
                   available_updates, batches, mods_dir, cpc, cresult>>
    /\ UNCHANGED outsideCommand

\* main.rs:197-220: the missing mods are downloaded; an error of the call is
\* propagated, otherwise the downloaded names are counted as installed
DownloadMissing ==
    /\ subcommand = "install" /\ cpc = "loop"
    /\ next_name <= Len(mod_names)
    /\ ~IsInstalled(installed_mod_names, mod_names[next_name])
    /\ LET downloadable_mods ==
               check_dependencies(loaded_graph, mod_names[next_name], loaded_registry,
                                  installed_mod_names)
       IN /\ downloadable_mods # <<>>
          /\ \E ok \in BOOLEAN, arrivedFiles \in BatchFiles(downloadable_mods) :
               /\ DownloadBatch(downloadable_mods, ok, arrivedFiles)
               /\ IF ok
                  THEN /\ installed_mod_names' =
                              Bookkeep(installed_mod_names, downloadable_mods)
                       /\ next_name' = next_name + 1
                       /\ cpc' = cpc
                  ELSE /\ cpc' = "returned"
                       /\ UNCHANGED <<installed_mod_names, next_name>>
    /\ UNCHANGED <<subcommand, args_install, loaded_registry, loaded_graph, mod_names,
                   inventory, kept_mods, updater_blacklist, available_updates>>
    /\ UNCHANGED outsideCommand

\* main.rs:191-221: the loop is over
InstallFinished ==
    /\ subcommand = "install" /\ cpc = "loop"
    /\ mod_names # <<>> /\ next_name > Len(mod_names)
    /\ cpc' = "returned" /\ cresult' = "Ok"
    /\ UNCHANGED <<subcommand, args_install, loaded_registry, loaded_graph, mod_names,
                   next_name, installed_mod_names, inventory, kept_mods,
                   updater_blacklist, available_updates, batches, mods_dir>>
    /\ UNCHANGED outsideCommand

\* main.rs:225-229: the blacklist is read and the listed locations are
\* dropped from the local mods; a read error is propagated
ReadUpdaterBlacklist ==
    /\ subcommand = "update" /\ cpc = "start"
    /\ IF updater_blacklist[1] = "Err"
       THEN cpc' = "returned" /\ cresult' = "Err" /\ kept_mods' = kept_mods
       ELSE /\ cpc' = "filtered" /\ cresult' = cresult
            /\ kept_mods' = IF updater_blacklist[1] = "Some"
                            THEN Retain(kept_mods, updater_blacklist[2])
                            ELSE kept_mods
    /\ UNCHANGED <<subcommand, args_install, loaded_registry, loaded_graph, mod_names,
                   next_name, installed_mod_names, inventory, updater_blacklist,
                   available_updates, batches, mods_dir>>
    /\ UNCHANGED outsideCommand

\* main.rs:231-236: the registry is fetched; an error is propagated
FetchRegistry ==
    /\ subcommand = "update" /\ cpc = "filtered"
    /\ \/ /\ loaded_registry' \in UpdateRegistries
          /\ cpc' = "fetched" /\ cresult' = cresult
       \/ /\ loaded_registry' = loaded_registry
          /\ cpc' = "returned" /\ cresult' = "Err"
    /\ UNCHANGED <<subcommand, args_install, loaded_graph, mod_names, next_name,
                   installed_mod_names, inventory, kept_mods, updater_blacklist,
                   available_updates, batches, mods_dir>>
    /\ UNCHANGED outsideCommand

\* main.rs:238: the remaining local mods are compared with the registry
CheckUpdatesMutant ==
    /\ subcommand = "update" /\ cpc = "fetched"
    /\ available_updates' = check_updates(kept_mods, loaded_registry)
    /\ loaded_registry' =
           [n \in DOMAIN loaded_registry \
                     Range(PairNames(check_updates(kept_mods, loaded_registry)))
              |-> loaded_registry[n]]
    /\ cpc' = "checked"
    /\ UNCHANGED <<subcommand, args_install, loaded_graph, mod_names,
                   next_name, installed_mod_names, inventory, kept_mods,
                   updater_blacklist, batches, mods_dir, cresult>>
    /\ UNCHANGED outsideCommand
CheckUpdates ==
    /\ subcommand = "update" /\ cpc = "fetched"
    /\ available_updates' = check_updates(kept_mods, loaded_registry)
    /\ cpc' = "checked"
    /\ UNCHANGED <<subcommand, args_install, loaded_registry, loaded_graph, mod_names,
                   next_name, installed_mod_names, inventory, kept_mods,
                   updater_blacklist, batches, mods_dir, cresult>>
    /\ UNCHANGED outsideCommand

\* main.rs:240-241: no update is available
UpToDate ==
    /\ subcommand = "update" /\ cpc = "checked"
    /\ available_updates = <<>>
    /\ cpc' = "returned" /\ cresult' = "Ok"
    /\ UNCHANGED <<subcommand, args_install, loaded_registry, loaded_graph, mod_names,
                   next_name, installed_mod_names, inventory, kept_mods,
                   updater_blacklist, available_updates, batches, mods_dir>>
    /\ UNCHANGED outsideCommand

\* main.rs:242-251: updates are available and --install is given
InstallUpdatesMutant ==
    /\ subcommand = "update" /\ cpc = "checked"
    /\ available_updates # <<>>
    /\ \E ok \in BOOLEAN, arrivedFiles \in BatchFiles(available_updates) :
         /\ batches' = Append(batches, PairNames(available_updates))
         /\ mods_dir' = mods_dir \cup arrivedFiles
         /\ cresult' = IF ok THEN "Ok" ELSE "Err"
         /\ cpc' = "returned"
    /\ UNCHANGED <<subcommand, args_install, loaded_registry, loaded_graph, mod_names,
                   next_name, installed_mod_names, inventory, kept_mods,
                   updater_blacklist, available_updates>>
    /\ UNCHANGED outsideCommand
InstallUpdates ==
    /\ subcommand = "update" /\ cpc = "checked"
    /\ available_updates # <<>> /\ args_install
    /\ \E ok \in BOOLEAN, arrivedFiles \in BatchFiles(available_updates) :
         /\ batches' = Append(batches, PairNames(available_updates))
         /\ mods_dir' = mods_dir \cup arrivedFiles
         /\ cresult' = IF ok THEN "Ok" ELSE "Err"
         /\ cpc' = "returned"
    /\ UNCHANGED <<subcommand, args_install, loaded_registry, loaded_graph, mod_names,
                   next_name, installed_mod_names, inventory, kept_mods,
                   updater_blacklist, available_updates>>
    /\ UNCHANGED outsideCommand

\* main.rs:252-255: updates are available and --install is not given
HintInstall ==
    /\ subcommand = "update" /\ cpc = "checked"
    /\ available_updates # <<>> /\ ~args_install
    /\ cpc' = "returned" /\ cresult' = "Ok"
    /\ UNCHANGED <<subcommand, args_install, loaded_registry, loaded_graph, mod_names,
                   next_name, installed_mod_names, inventory, kept_mods,
                   updater_blacklist, available_updates, batches, mods_dir>>
    /\ UNCHANGED outsideCommand

NextCommand ==
    \/ NoModForId
    \/ SkipInstalledName
    \/ NothingToInstall
    \/ DownloadMissing
    \/ InstallFinished
    \/ ReadUpdaterBlacklist
    \/ FetchRegistry
    \/ CheckUpdates
    \/ UpToDate
    \/ InstallUpdates
    \/ HintInstall

SpecCommand == InitCommand /\ [][NextCommand]_vars

(***************************************************************************)
(* Properties of the resolution.                                           *)
(***************************************************************************)
\* the names reachable from a set of names along dependency edges
RECURSIVE ReachFrom(_, _)
ReachFrom(g, S) ==
    LET N == S \cup UNION {Dependencies(g, n) : n \in S}
    IN IF N = S THEN S ELSE ReachFrom(g, N)

Reachable == ReachFrom(graph, {target})

\* the names of the fetch set, in order
FetchNames == [i \in 1..Len(fetch) |-> fetch[i][1]]

\* the dependencies install() went on to download (the first download is the mod itself)
DependencyDownloads == {attempted[i] : i \in 2..Len(attempted)}

\* C1 as stated: the set resolve returns holds the starting name and every
\* name reachable from it, each exactly once.
C1_ReturnsWholeClosure ==
    pc = "resolved" =>
        /\ NoDuplicates(FetchNames)
        /\ Range(FetchNames) = Reachable

\* C1 amended: the traversal visits the starting name and every name reachable
\* from it exactly once, and resolve returns, each exactly once, exactly those
\* of them that are not platform-core names, are not installed and are in the
\* registry.
C1_ClosureThenFiltered ==
    pc = "resolved" =>
        /\ NoDuplicates(order)
        /\ Range(order) = Reachable
        /\ NoDuplicates(FetchNames)
        /\ Range(FetchNames) =
             {n \in Reachable : n \notin CoreNames /\ n \notin installed
                                /\ n \in DOMAIN registry}
        /\ \A i \in 1..Len(fetch) : fetch[i][2] = registry[fetch[i][1]]

C1_Witness ==
    /\ pc = "resolved"
    /\ Cardinality(Reachable) = 3
    /\ target \in Dependencies(graph, "B")
    /\ Len(fetch) = 3

\* C2: the traversal ends on every graph, cyclic ones included, and looks up
\* the dependency record of each name at most once.
C2_TerminatesExpandingOnce ==
    /\ [](\A n \in Names : expansions[n] <= 1)
    /\ <>(pc = "resolved")

C2_Witness ==
    /\ pc = "resolved"
    /\ target \in Dependencies(graph, target)
    /\ \E n \in Mods \ {target} : target \in Dependencies(graph, n) /\ expansions[n] = 1
    /\ expansions[target] = 1

\* C3: no installed name is in the fetch set, nor among the missing
\* dependencies install() computes and downloads.
C3_InstalledNeverFetched ==
    /\ Range(FetchNames) \cap installed = {}
    /\ missing \cap installed = {}
    /\ DependencyDownloads \cap installed = {}

C3_Witness ==
    /\ pc = "resolved"
    /\ Range(order) \cap installed # {}
    /\ fetch # <<>>

\* C4: neither "Everest" nor "EverestCore" is in the fetch set, nor among the
\* missing dependencies install() computes and downloads.
C4_CoreNeverFetched ==
    /\ Range(FetchNames) \cap {"Everest", "EverestCore"} = {}
    /\ missing \cap {"Everest", "EverestCore"} = {}
    /\ DependencyDownloads \cap {"Everest", "EverestCore"} = {}

C4_Witness ==
    /\ pc = "resolved"
    /\ {"Everest", "EverestCore"} \subseteq Range(order)
    /\ fetch # <<>>

\* C9: when the acquisition is over every item that was to be fetched has
\* been attempted, whatever happened to the others.
C9_EveryItemAttempted ==
    (flow = "manifest" /\ pc = "returned") =>
        \A d \in missing : d \in DOMAIN registry => d \in Range(attempted)

(***************************************************************************)
(* Properties of download_mod.                                             *)
(***************************************************************************)
\* download_mod read the whole body and compared its checksum
Compared == dpc = "returned" /\ computed # <<>>

C6_NoPartialFileLeft ==
    (dpc = "returned" /\ created /\ dresult # "Ok") => file # "this"

\* C10: the download is accepted exactly when the computed checksum equals,
\* ignoring ASCII case, an entry of the acceptable checksums, which is what
\* has_matching_hash answers.
C10_CaseInsensitiveAcceptance ==
    Compared => (dresult = "Ok" <=> has_matching_hash(expected, computed))

(***************************************************************************)
(* Properties of the permit pool and of mirror failover.                   *)
(***************************************************************************)
\* C7: with more items than permits, never more than six downloads are in
\* flight at once.
C7_AtMostPoolSizeInFlight ==
    Cardinality(InFlight) <= PoolSize

C7_Witness ==
    /\ Cardinality(InFlight) = PoolSize
    /\ \E i \in Items : task[i] = "spawned"
    /\ Cardinality(Items) > PoolSize

\* C8: an item ends in the transport failure only after one attempt on each
\* of the N mirrors of the list, and with all of them failing it makes
\* exactly N attempts.
C8_ExactlyOneAttemptPerMirror ==
    /\ Len(tried) <= Len(mirrors)
    /\ mresult = "Request" => Len(tried) = Len(mirrors)

C8_Witness ==
    /\ mpc = "done"
    /\ mresult = "Request"
    /\ mirrors = DefaultMirrors
    /\ tried = mirrors

Wanted == {n \in Reachable : n \notin CoreNames /\ n \notin installed}

\* C12: a missing name that is absent from the registry is reported and is
\* not fetched, the missing names that are in the registry are all fetched,
\* and a lookup miss never ends the resolution or the installation in an
\* error: install() fails in resolve_dependencies only on the download of a
\* name that is in the registry.
C12_RegistryMissDropped ==
    /\ pc = "resolved" =>
          /\ Range(FetchNames) = {n \in Wanted : n \in DOMAIN registry}
          /\ diag = {n \in Wanted : n \notin DOMAIN registry}
    /\ flow = "manifest" =>
          /\ DependencyDownloads \subseteq DOMAIN registry
          /\ diag \subseteq {n \in missing : n \notin DOMAIN registry}
          /\ (pc = "returned" /\ result = "Ok") =>
                /\ diag = {n \in missing : n \notin DOMAIN registry}
                /\ DependencyDownloads = {n \in missing : n \in DOMAIN registry}
          /\ (pc = "returned" /\ result = "Err" /\ missing # {}) =>
                /\ attempted[Len(attempted)] \in todo
                /\ attempted[Len(attempted)] \in DOMAIN registry

\* graph {A: [B]} with no registry entry for B: the fetch set is {A}
C12_Witness ==
    /\ pc = "resolved"
    /\ target = "A"
    /\ graph = [n \in {"A"} |-> {"B"}]
    /\ "B" \notin DOMAIN registry
    /\ installed = {}
    /\ FetchNames = <<"A">>
    /\ diag = {"B"}

(***************************************************************************)
(* Properties of mirror failover and of a failed verification.             *)
(***************************************************************************)
\* C13: the mirrors contacted for an item are the first mirrors of the
\* priority list, in the order of the list and none from outside it, and
\* every contacted mirror but the last failed at the request level, so that
\* a mirror is contacted only after all earlier ones failed and none is
\* contacted after one answered.
C13_FailoverInPriorityOrder ==
    /\ Len(tried) <= Len(mirrors)
    /\ tried = SubSeq(mirrors, 1, Len(tried))
    /\ Len(answers) = Len(tried)
    /\ \A i \in 1..(Len(tried) - 1) : answers[i] = "failed"

\* a list restricted to two mirrors, in an order of the caller's: the first
\* fails, the second answers
C13_Witness ==
    /\ mirrors = <<"jade", "gb">>
    /\ tried = mirrors
    /\ answers = <<"failed", "ok">>
    /\ mpc = "done"
    /\ mresult = "Ok"

\* the body was read to its end and its checksum equals no acceptable one
Mismatch == Compared /\ computed \notin Range(expected)

\* what a failed verification ends in
MismatchOutcome ==
    Mismatch =>
        \/ dresult = "InvalidChecksum" /\ file = "absent"
        \/ dresult = "Io" /\ file = "this"

C15_PermitsReleasedAndEveryItemRuns ==
    /\ []((\A i \in Items : task[i] = "finished") => permits = PoolSize)
    /\ <>(\A i \in Items : task[i] # "spawned")

\* more items than permits, every item over, all kinds of outcome among them
C15_Witness ==
    /\ joined
    /\ permits = PoolSize
    /\ Cardinality(Items) > PoolSize
    /\ {outcome[i] : i \in Items} = Outcomes

(***************************************************************************)
(* Properties of a run.                                                    *)
(***************************************************************************)
\* C16 as stated: no download is issued unless both the registry and the
\* dependency graph were fetched and decoded.
C16_NoDownloadUnlessBothLoaded ==
    issued > 0 => (regTask = "ok" /\ graphTask = "ok")

\* C16 amended: no download is issued unless everything the command loads
\* was fetched and decoded, the registry and the dependency graph for
\* install and the registry for update; a run in which a fetch failed issues
\* no download and ends in an error.
C16_NoDownloadUnlessLoaded ==
    /\ issued > 0 => (regTask = "ok" /\ (command = "install" => graphTask = "ok"))
    /\ (regTask = "failed" \/ graphTask = "failed") =>
          /\ issued = 0
          /\ rpc \in {"fetching", "returned"}
          /\ rpc = "returned" => rresult = "Err"

\* an install run that downloaded for two names after both fetches succeeded
C16_Witness ==
    /\ command = "install"
    /\ issued = 2
    /\ regTask = "ok" /\ graphTask = "ok"
    /\ rpc = "returned" /\ rresult = "Ok"

(***************************************************************************)
(* Properties of the update check and of the cached checksum.              *)
(***************************************************************************)
\* a string in lower case
Lower(str) == [i \in 1..Len(str) |-> to_ascii_lowercase(str[i])]

\* the local mod at index i is listed in the registry, its checksum was
\* computed, and no acceptable checksum of its entry is that checksum
OutOfDate(i) ==
    LET m == local_mods[i] IN
    /\ m.name \in DOMAIN mod_registry
    /\ i \notin failed
    /\ \A k \in 1..Len(mod_registry[m.name].checksums) :
          Lower(mod_registry[m.name].checksums[k]) # Lower(ChecksumOf(m.body))

\* the pairs of the local mods at the indices from i on that are out of date
RECURSIVE PairsFrom(_)
PairsFrom(i) ==
    IF i > Len(local_mods) THEN <<>>
    ELSE (IF OutOfDate(i)
          THEN <<<<local_mods[i].name, mod_registry[local_mods[i].name]>>>>
          ELSE <<>>) \o PairsFrom(i + 1)

\* C17: check_updates returns exactly the pairs (name, registry[name]) of
\* the local mods that are listed in the registry and whose checksum matches
\* none of the entry's acceptable checksums; a mod that is not listed, or
\* whose checksum matches, contributes nothing.
C17_ExactlyTheOutOfDate ==
    upc = "done" => updates = PairsFrom(1)

\* an unlisted mod, a mod whose checksum matches in another case, and an
\* out-of-date mod
C17_Witness ==
    /\ upc = "done"
    /\ Len(local_mods) = 3
    /\ Len(updates) = 1
    /\ failed = {}
    /\ \E i \in 1..3 : local_mods[i].name \notin DOMAIN mod_registry
    /\ \E i \in 1..3 :
          /\ local_mods[i].name \in DOMAIN mod_registry
          /\ mod_registry[local_mods[i].name].checksums = <<ToUpper(ChecksumOf(<<1>>))>>
          /\ local_mods[i].body = <<1>>

\* the local mods whose checksum was computed, or was not needed
RECURSIVE Others(_)
Others(i) ==
    IF i > Len(local_mods) THEN <<>>
    ELSE (IF i \in failed THEN <<>> ELSE <<local_mods[i]>>) \o Others(i + 1)

\* check_updates on mods whose checksum can be computed
RECURSIVE CheckUpdatesOf(_, _)
CheckUpdatesOf(mods, reg) ==
    IF mods = <<>> THEN <<>>
    ELSE Examine(Head(mods).name, get_mod_info_by_name(reg, Head(mods).name),
                 hash_file(Head(mods).body, TRUE))
         \o CheckUpdatesOf(Tail(mods), reg)

\* C18: when the checksum of some local mods cannot be computed the scan
\* still examines every mod, and its result is the result of check_updates
\* on the local mods without the failing ones.
C18_FailureExcludesOnlyThatMod ==
    upc = "done" =>
        /\ \A i \in 1..Len(local_mods) : examined[i] # "pending"
        /\ \A i \in failed : examined[i] = <<>>
        /\ updates = CheckUpdatesOf(Others(1), mod_registry)

\* one checksum fails, and another mod is reported
C18_Witness ==
    /\ upc = "done"
    /\ Cardinality(failed) = 1
    /\ Len(local_mods) = 3
    /\ Len(updates) = 2

\* the runs of hash_file that succeeded
GoodRuns == {i \in 1..Len(hashRuns) : hashRuns[i][1] = "Ok"}

\* C19 as stated: the file is hashed at most once, and all calls of
\* checksum() return the same value.
C19_ComputedAtMostOnce ==
    /\ Len(hashRuns) <= 1
    /\ \A i, j \in 1..Len(returns) : returns[i] = returns[j]

\* C19 amended: the file is hashed successfully at most once and never
\* after that, a call hashes the file only while no call has succeeded,
\* and from the first successful call on every call returns the same value.
C19_CachedOnceComputed ==
    /\ Cardinality(GoodRuns) <= 1
    /\ \A i \in GoodRuns : i = Len(hashRuns)
    /\ Len(hashRuns) <= Len(returns)
    /\ \A i, j \in 1..Len(returns) :
          (i < j /\ returns[i][1] = "Ok") => returns[j] = returns[i]
    /\ \A i \in 1..Len(returns) : returns[i][1] = "Err" => i <= Len(hashRuns)

\* a failed call, then two calls that return the same checksum although the
\* file was rewritten in between
C19_Witness ==
    /\ Len(returns) = 3
    /\ returns[1] = <<"Err">>
    /\ returns[2][1] = "Ok"
    /\ returns[3] = returns[2]
    /\ Len(hashRuns) = 2
    /\ cell # <<ChecksumOf(fileBody)>>

(***************************************************************************)
(* Properties of the loading of the local mods.                            *)
(***************************************************************************)
\* the manifest texts that are well formed, each with the name of its first entry
WellFormedManifests ==
    {<<Entry("A"), "A">>, <<Bom \o Entry("B"), "B">>, <<Entry("A") \o Entry("B"), "A">>}

\* the archive is a readable ZIP file with an entry everest.yaml that holds
\* a well-formed manifest
WellFormed(a) ==
    /\ a.zip = "ok"
    /\ "everest.yaml" \in a.entries
    /\ \E w \in WellFormedManifests : w[1] = a.bytes

ManifestName(a) == (CHOOSE w \in WellFormedManifests : w[1] = a.bytes)[2]

\* the local mods of the well-formed archives at the indices from i on
RECURSIVE ModsFrom(_)
ModsFrom(i) ==
    IF i > Len(archive_paths) THEN <<>>
    ELSE (IF WellFormed(archive_paths[i])
          THEN <<[location |-> i, manifest |-> [name |-> ManifestName(archive_paths[i])],
                  cell |-> <<>>]>>
          ELSE <<>>) \o ModsFrom(i + 1)

\* C20: load_local_mods returns, in the order of the paths, one LocalMod
\* for exactly the archives that hold a well-formed manifest, and logs and
\* skips every other archive: a warning where the manifest entry is
\* missing, an error where the manifest is malformed or empty or the
\* archive cannot be read.
C20_LoadsExactlyTheWellFormed ==
    lpc = "done" =>
        /\ loadedMods = ModsFrom(1)
        /\ \A i \in 1..Len(archive_paths) :
              LET a == archive_paths[i] IN
              logged[i] = IF WellFormed(a) THEN "none"
                          ELSE IF a.zip = "ok" /\ "everest.yaml" \notin a.entries
                          THEN "warn" ELSE "error"

\* an archive with an empty manifest is skipped, one whose manifest starts
\* with a byte order mark is loaded
C20_Witness ==
    /\ lpc = "done"
    /\ Len(archive_paths) = 2
    /\ archive_paths[1].bytes = <<"[", "]">>
    /\ archive_paths[2].bytes = Bom \o Entry("B")
    /\ Len(loadedMods) = 1
    /\ loadedMods[1].location = 2
    /\ logged[1] = "error"

(***************************************************************************)
(* C28: within one download the chunks are processed strictly in arrival   *)
(* order: after every completed iteration of the streaming loop the bytes  *)
(* written to the file and the bytes fed to the hasher are the same        *)
(* sequence, the concatenation of all chunks received so far, and the      *)
(* hasher's state is the one that sequence produces.                       *)
(***************************************************************************)
C28_ChunksInArrivalOrder ==
    (dpc = "streaming" \/ (dpc = "returned" /\ computed # <<>>)) =>
        /\ written = arrived
        /\ hashedData = arrived
        /\ hasher = Xxh64Update(Xxh64New, arrived)

\* two chunks have been received and processed, and they differ
C28_Witness ==
    /\ dpc = "streaming"
    /\ received = 2
    /\ Len(arrived) >= 2
    /\ \E i, j \in 1..Len(arrived) : arrived[i] # arrived[j]
    /\ written = arrived

(***************************************************************************)
(* C21: ModManifest::from_slice returns the first entry of the decoded     *)
(* manifest list; on a list without entries it returns the no-entries      *)
(* error and on a document that is not a list of manifest entries the      *)
(* parse error, and in neither case a manifest.                            *)
(***************************************************************************)
C21_FirstEntryOrError ==
    (callee = "from_slice" /\ returned # <<>>) =>
        LET r == returned[1] IN
        IF IsEntryList(argument) THEN r = <<"Ok", [name |-> argument[2]]>>
        ELSE IF argument = <<"[", "]">> THEN r = <<"Err", "Invalid">>
        ELSE r = <<"Err", "Parse">>

\* a list of two different entries has been decoded
C21_Witness ==
    /\ callee = "from_slice"
    /\ argument = <<"-", "B", "-", "A">>
    /\ returned = <<<<"Ok", [name |-> "B"]>>>>

(***************************************************************************)
(* C22: extract_id returns Ok(rest) exactly when the URL is the prefix     *)
(* "https://gamebanana.com/mods/" followed by a non-empty remainder, and   *)
(* rest is that remainder unchanged; it returns NoIdSegment when the URL   *)
(* equals the prefix, and InvalidPrefix carrying the URL otherwise.        *)
(***************************************************************************)
C22_ExtractId ==
    (callee = "extract_id" /\ returned # <<>>) =>
        LET r == returned[1]
            p == VALID_MOD_PAGE_URL_PREFIX
            rests == {SubSeq(argument, k, Len(argument)) : k \in 1..Len(argument)}
        IN  /\ r[1] = "Ok" <=> \E rest \in rests : argument = p \o rest
            /\ r[1] = "Ok" => argument = p \o r[2]
            /\ argument = p <=> r = <<"Err", "NoIdSegment">>
            /\ (r[1] = "Err" /\ argument # p) => r = <<"Err", "InvalidPrefix", argument>>

\* a remainder with a trailing path and a query has been returned unchanged
C22_Witness ==
    /\ callee = "extract_id"
    /\ returned # <<>>
    /\ returned[1] = <<"Ok", <<"1", "/", "?">>>>

\* the decimal digits of a value given as two sixteen-bit limbs
RECURSIVE Decimal(_)
Decimal(v) ==
    LET rest == (v[1] % 10) * Limb + v[2]
        quotient == <<v[1] \div 10, rest \div 10>>
    IN  IF quotient = <<0, 0>> THEN <<Digits[(rest % 10) + 1]>>
        ELSE Append(Decimal(quotient), Digits[(rest % 10) + 1])

\* a digit string without its leading zeros, "0" for zero
RECURSIVE Canonical(_)
Canonical(s) ==
    IF Len(s) > 1 /\ Head(s) = "0" THEN Canonical(Tail(s)) ELSE s

\* the digit string a is at most the digit string b of the same length
RECURSIVE AtMost(_, _)
AtMost(a, b) ==
    \/ a = <<>>
    \/ DigitOf(Head(a)) < DigitOf(Head(b))
    \/ Head(a) = Head(b) /\ AtMost(Tail(a), Tail(b))

\* the text denotes a number from 0 to 2^32 - 1
DenotesU32(s) ==
    LET digits == IF s # <<>> /\ Head(s) = "+" THEN Tail(s) ELSE s IN
    /\ digits # <<>>
    /\ \A i \in 1..Len(digits) : IsDigit(digits[i])
    /\ \/ Len(Canonical(digits)) < Len(U32MaxText)
       \/ Len(Canonical(digits)) = Len(U32MaxText) /\ AtMost(Canonical(digits), U32MaxText)

\* the number the text denotes, in decimal
Denoted(s) == Canonical(IF Head(s) = "+" THEN Tail(s) ELSE s)

(***************************************************************************)
(* C23: parse_mod_page_url returns Ok(id) exactly when the URL parses, its *)
(* scheme is http or https, its host is gamebanana.com, its first path     *)
(* segment is "mods" and its second segment denotes a number from 0 to     *)
(* 2^32 - 1, and id is then that number; every other input is an error.    *)
(***************************************************************************)
C23_ParseModPageUrl ==
    (callee = "parse_mod_page_url" /\ returned # <<>>) =>
        LET r == returned[1]
            u == UrlParse(argument)
            wellFormed ==
                /\ u[1] = "Ok"
                /\ u[2].scheme \in {"http", "https"}
                /\ u[2].host = "gamebanana.com"
                /\ Len(u[2].segments) >= 2
                /\ u[2].segments[1] = <<"mods">>
                /\ DenotesU32(u[2].segments[2])
        IN  /\ r[1] \in {"Ok", "Err"}
            /\ r[1] = "Ok" <=> wellFormed
            /\ r[1] = "Ok" => Decimal(r[2]) = Denoted(u[2].segments[2])

\* the largest ID has been parsed
C23_Witness ==
    /\ callee = "parse_mod_page_url"
    /\ returned = <<<<"Ok", <<65535, 65535>>>>>>
    /\ argument = <<"https", "://", "gamebanana.com", "/", "mods", "/">> \o U32MaxText

\* an ID above the largest one has been refused
C23_WitnessTooLarge ==
    /\ callee = "parse_mod_page_url"
    /\ returned = <<<<"Err", "InvalidModId">>>>
    /\ argument = <<"https", "://", "gamebanana.com", "/", "mods", "/">>
                      \o [U32MaxText EXCEPT ![10] = "6"]

(***************************************************************************)
(* C24: for every input sanitize returns a name that is not empty, has at  *)
(* most 255 characters, contains none of / \ * ? : ; nor CR, LF or NUL,    *)
(* and neither starts nor ends with whitespace.                            *)
(***************************************************************************)
C24_SanitizedName ==
    (callee = "sanitize" /\ returned # <<>>) =>
        LET r == returned[1] IN
        /\ r[1] = "Ok"
        /\ r[2] # <<>>
        /\ Len(r[2]) <= NameLimit
        /\ \A i \in 1..Len(r[2]) : r[2][i] \notin BAD_CHARS \cup {"CR", "LF", "NUL"}
        /\ r[2][1] \notin WhiteSpace
        /\ r[2][Len(r[2])] \notin WhiteSpace

\* the same without the requirement on leading and trailing whitespace
C24_NoForbiddenCharacter ==
    (callee = "sanitize" /\ returned # <<>> /\ returned[1][1] = "Ok") =>
        LET name == returned[1][2] IN
        /\ name # <<>>
        /\ ByteLen(name) <= NameLimit
        /\ \A i \in 1..Len(name) : name[i] \notin BAD_CHARS \cup {"CR", "LF", "NUL"}

\* a name has been returned that starts with whitespace
C24_LeadingSpace ==
    /\ callee = "sanitize"
    /\ argument = <<"NUL", " ", "a">>
    /\ returned = <<<<"Ok", <<" ", "a">>>>>>

\* a name has been cut in the middle of a character
C24_Panics ==
    /\ callee = "sanitize"
    /\ argument = Repeat("U+00E9", NameLimit \div 2 + 1)
    /\ returned = <<<<"Panic">>>>

\* a name has been cut after a space
C24_TrailingSpace ==
    /\ callee = "sanitize"
    /\ argument = Repeat("a", NameLimit - 1) \o <<" ", "a">>
    /\ returned = <<<<"Ok", Repeat("a", NameLimit - 1) \o <<" ">>>>>>

(***************************************************************************)
(* C25: find_mod_registry_from_url(id) returns Some((name, info)), an      *)
(* entry of the registry with info.gamebanana_id = id, whenever at least   *)
(* one entry has that ID, and None exactly when no entry has it.           *)
(***************************************************************************)
C25_FindById ==
    (callee = "find_mod_registry_from_url" /\ returned # <<>>) =>
        LET r == returned[1]
            reg == argument.mod_registry
            some == \E n \in DOMAIN reg : reg[n].gamebanana_id = argument.mod_id
        IN  /\ r[1] = "Some" <=> some
            /\ r[1] = "None" <=> ~some
            /\ r[1] = "Some" =>
                  /\ r[2] \in DOMAIN reg
                  /\ r[3] = reg[r[2]]
                  /\ r[3].gamebanana_id = argument.mod_id

\* an entry has been found in a registry that holds the ID twice and another ID
C25_Witness ==
    /\ callee = "find_mod_registry_from_url"
    /\ returned # <<>>
    /\ returned[1][1] = "Some"
    /\ \E n, m \in DOMAIN argument.mod_registry :
          /\ n # m
          /\ argument.mod_registry[n].gamebanana_id = argument.mod_id
          /\ argument.mod_registry[m].gamebanana_id = argument.mod_id
    /\ \E n \in DOMAIN argument.mod_registry :
          argument.mod_registry[n].gamebanana_id # argument.mod_id

(***************************************************************************)
(* C26: no two downloads of one run ever write to the same destination     *)
(* path at the same time: the items are given different file names.        *)
(***************************************************************************)
C26_NoSharedDestination ==
    \A i, j \in DOMAIN dstage :
        (i # j /\ dstage[i] = "writing" /\ dstage[j] = "writing") =>
            destination[i] # destination[j]

\* two items write at the same time to the name of the last URL segment
C26_SameSegment ==
    \E i, j \in DOMAIN dstage :
        /\ i # j
        /\ dstage[i] = "writing" /\ dstage[j] = "writing"
        /\ responses[i].segments # responses[j].segments
        /\ destination[i] = <<<<"a", ".zip">>>>
        /\ destination[j] = <<<<"a", ".zip">>>>

\* the names made from generated identifiers never coincide
C26_GeneratedNamesDiffer ==
    \A i, j \in DOMAIN dstage :
        (i # j /\ destination[i] # <<>> /\ destination[j] # <<>>
             /\ CallsUuid(responses[i]) /\ CallsUuid(responses[j])) =>
            destination[i] # destination[j]

\* the positions of the non-empty segments of a path
NonEmptySegments(segments) == {k \in 1..Len(segments) : segments[k] # <<>>}

\* the name is "unknown-mod_<uuid>.zip"
IsGenerated(name) == \E u \in Uuids : name = <<"unknown-mod_", u, ".zip">>

(***************************************************************************)
(* C27, as stated: the name is the last non-empty path segment of the      *)
(* final URL if the path has one; otherwise the ETag value without its     *)
(* surrounding quotes and with ".zip" appended; otherwise a fresh          *)
(* "unknown-mod_<uuid>.zip".                                               *)
(***************************************************************************)
C27_LastNonEmptySegment ==
    \A i \in DOMAIN destination :
        destination[i] # <<>> =>
            LET name == destination[i][1]
                segments == responses[i].segments
                etag == responses[i].etag
                nonEmpty == NonEmptySegments(segments)
            IN  IF nonEmpty # {}
                THEN name = segments[CHOOSE k \in nonEmpty : \A m \in nonEmpty : m <= k]
                ELSE IF etag[1] = "text" THEN name = TrimQuotes(etag[2]) \o <<".zip">>
                ELSE IsGenerated(name)

(***************************************************************************)
(* C27, amended: the name is the last path segment of the final URL if it  *)
(* is not empty; otherwise the ETag value, if the header is present and is *)
(* text, without its surrounding quotes and with ".zip" appended;          *)
(* otherwise a fresh "unknown-mod_<uuid>.zip"; a name is always returned   *)
(* and is never empty.                                                     *)
(***************************************************************************)
C27_StrictPreference ==
    \A i \in DOMAIN destination :
        /\ dstage[i] # "requested" => destination[i] # <<>>
        /\ destination[i] # <<>> =>
            LET name == destination[i][1]
                segments == responses[i].segments
                etag == responses[i].etag
            IN  /\ name # <<>>
                /\ IF segments[Len(segments)] # <<>> THEN name = segments[Len(segments)]
                   ELSE IF etag[1] = "text" THEN name = TrimQuotes(etag[2]) \o <<".zip">>
                   ELSE /\ IsGenerated(name)
                        /\ \A j \in DOMAIN destination :
                              (j # i /\ destination[j] # <<>>) => destination[j][1] # name

\* a URL that ends with "/" after a segment: the name comes from the ETag header
C27_Witness ==
    \E i \in DOMAIN destination :
        /\ responses[i].segments = <<<<"a", ".zip">>, <<>>>>
        /\ responses[i].etag = <<"text", <<"\"", "a", "\"">>>>
        /\ destination[i] = <<<<"a", ".zip">>>>

\* two names have been generated
C27_WitnessGenerated ==
    \E i, j \in DOMAIN destination :
        /\ i # j
        /\ destination[i] # <<>> /\ IsGenerated(destination[i][1])
        /\ destination[j] # <<>> /\ IsGenerated(destination[j][1])

\* the target has an empty dependency record or none, is not installed and
\* is listed in the registry
LoneTarget ==
    /\ flow = "graph" /\ pc = "resolved"
    /\ Dependencies(graph, target) = {}
    /\ target \notin installed
    /\ target \in DOMAIN registry

(***************************************************************************)
(* C29, as stated: an empty or missing dependency record for the target    *)
(* yields a fetch set containing exactly the target when the target is not *)
(* installed and is present in the registry.                               *)
(***************************************************************************)
C29_LoneTargetFetched ==
    LoneTarget => fetch = <<<<target, registry[target]>>>>

(***************************************************************************)
(* C29, amended: the same for a target that is not one of the two          *)
(* platform-core names; a platform-core target yields the empty fetch set. *)
(***************************************************************************)
C29_LoneOrdinaryTargetFetched ==
    LoneTarget =>
        IF target \in CoreNames THEN fetch = <<>>
        ELSE fetch = <<<<target, registry[target]>>>>

\* the target carries an empty record and has been resolved to itself
C29_Witness ==
    /\ LoneTarget
    /\ target = "A"
    /\ "A" \in DOMAIN graph
    /\ graph["A"] = {}
    /\ FetchNames = <<"A">>

\* the target carries no record at all and has been resolved to itself
C29_WitnessNoRecord ==
    /\ LoneTarget
    /\ target = "A"
    /\ "A" \notin DOMAIN graph
    /\ DOMAIN graph # {}
    /\ FetchNames = <<"A">>

(***************************************************************************)
(* C30: the registry fetch and the graph fetch of fetch_online_database    *)
(* run concurrently, neither waiting for the other: while both are running *)
(* either can take its next step.  The call succeeds exactly when both     *)
(* fetches have succeeded, in whichever order, and fails as soon as either *)
(* has failed; the progress indicator is finished only after both have     *)
(* completed.                                                              *)
(***************************************************************************)
C30_ConcurrentFetchBothOrNothing ==
    command = "install" =>
        /\ (rpc = "fetching" /\ Running(regTask) /\ Running(graphTask)) =>
              (ENABLED RegistryFetchStep /\ ENABLED GraphFetchStep)
        /\ (rpc = "fetching" /\ regTask = "ok" /\ graphTask = "ok") =>
              (ENABLED FetchSucceeded /\ ~ENABLED FetchFailed)
        /\ (rpc = "fetching" /\ (regTask = "failed" \/ graphTask = "failed")) =>
              (ENABLED FetchFailed /\ ~ENABLED FetchSucceeded)
        /\ (rpc = "fetching" /\ ENABLED FetchSucceeded) =>
              (regTask = "ok" /\ graphTask = "ok")
        /\ rpc = "loaded" => (regTask = "ok" /\ graphTask = "ok")
        /\ spinner = "finished" => (regTask = "ok" /\ graphTask = "ok")
        /\ spinner = "dropped" =>
              (rresult = "Err" /\ (regTask = "failed" \/ graphTask = "failed"))

\* both fetches have succeeded and the indicator has been finished
C30_Witness ==
    /\ command = "install"
    /\ rpc = "loaded"
    /\ spinner = "finished"
    /\ regTask = "ok" /\ graphTask = "ok"

\* the graph fetch has completed before the registry has answered
C30_GraphFirst ==
    /\ command = "install" /\ rpc = "fetching"
    /\ graphTask = "ok" /\ regTask = "pending"

\* the registry fetch has completed before the graph has answered
C30_RegistryFirst ==
    /\ command = "install" /\ rpc = "fetching"
    /\ regTask = "ok" /\ graphTask = "pending"

\* the call has failed while the other fetch was still running
C30_FailedEarly ==
    /\ command = "install" /\ rpc = "returned" /\ rresult = "Err"
    /\ graphTask = "failed" /\ regTask = "dropped"

\* the value of a hexadecimal digit, 16 for any other character
HexDigitValue(c) ==
    IF \E k \in 1..16 : HexChars[k] = c THEN (CHOOSE k \in 1..16 : HexChars[k] = c) - 1
    ELSE 16

\* the value of four hexadecimal digits
HexLimb(cs) ==
    HexDigitValue(cs[1]) * 4096 + HexDigitValue(cs[2]) * 256
        + HexDigitValue(cs[3]) * 16 + HexDigitValue(cs[4])

(***************************************************************************)
(* C37: for every 64-bit digest the checksum string has exactly sixteen    *)
(* characters, all among 0-9 and a-f, and read as a hexadecimal number     *)
(* with leading zeros it is the digest.                                    *)
(***************************************************************************)
C37_SixteenLowercaseHexDigits ==
    (callee = "format" /\ returned # <<>>) =>
        LET hash_str == returned[1] IN
        /\ Len(hash_str) = 16
        /\ \A i \in 1..16 : HexDigitValue(hash_str[i]) < 16
        /\ \A k \in 1..4 : HexLimb(SubSeq(hash_str, 4 * k - 3, 4 * k)) = argument[k]

\* a digest of one digit has been padded with fifteen zeros
C37_Witness ==
    /\ callee = "format"
    /\ argument = <<0, 0, 0, 10>>
    /\ returned = <<<<"0", "0", "0", "0", "0", "0", "0", "0", "0", "0", "0", "0", "0",
                      "0", "0", "a">>>>

(***************************************************************************)
(* C36: sanitize is idempotent: for every name, sanitize returns a name    *)
(* and sanitize of that name is the same name.                             *)
(***************************************************************************)
C36_SanitizeIdempotent ==
    callee = "sanitize twice" =>
        /\ Len(returned) >= 1 => returned[1][1] = "Ok"
        /\ Len(returned) = 2 => returned[2] = returned[1]

\* the second call removes the dot the first call left in front
C36_SecondDot ==
    /\ callee = "sanitize twice"
    /\ argument = <<".", ".", "a">>
    /\ returned = <<<<"Ok", <<".", "a">>>>, <<"Ok", <<"a">>>>>>

\* the second call removes the space the first call left in front
C36_LeftoverSpace ==
    /\ callee = "sanitize twice"
    /\ argument = <<"NUL", " ", "a">>
    /\ returned = <<<<"Ok", <<" ", "a">>>>, <<"Ok", <<"a">>>>>>

\* names on which the second call changes nothing: every name without a
\* second leading dot, without NUL and of at most 255 bytes
C36_IdempotentOnPlainNames ==
    (callee = "sanitize twice" /\ Len(returned) = 2
        /\ "NUL" \notin Range(argument)
        /\ ByteLen(argument) <= NameLimit
        /\ ~(StripDot(Trim(argument)) # <<>> /\ Head(StripDot(Trim(argument))) \in {".", " ", "LF"}))
    => returned[2] = returned[1]


(***************************************************************************)
(* Properties of one install or update command.                            *)
(***************************************************************************)
\* the names handed to download_mods_concurrently so far, in order
Downloaded == Flatten(batches)

\* the install loop is at a name
AtName == subcommand = "install" /\ cpc = "loop" /\ next_name <= Len(mod_names)

\* C31: the registry and the dependency graph are never changed once they
\* are loaded: no step of an install command changes either, and no step of
\* an update command changes the registry after its fetch
C31_RegistryAndGraphFrozenStep ==
    (subcommand = "install" \/ cpc \in {"fetched", "checked", "returned"})
        => (loaded_registry' = loaded_registry /\ loaded_graph' = loaded_graph)

C31_RegistryAndGraphFrozen == [][C31_RegistryAndGraphFrozenStep]_vars

\* an install command has downloaded a batch and counted its names as
\* installed, with the registry and the graph in use
C31_WitnessInstall ==
    /\ subcommand = "install" /\ batches # <<>> /\ cresult = "Ok"
    /\ DOMAIN loaded_graph # {}

\* an update command has checked for updates and downloaded them
C31_WitnessUpdate ==
    /\ subcommand = "update" /\ batches # <<>> /\ loaded_registry # <<>>

\* C32: during one install command no name is downloaded more than once
C32_NoNameDownloadedTwice ==
    subcommand = "install" => NoDuplicates(Downloaded)

\* every name downloaded for an earlier mod name is installed when the next
\* mod name is resolved
C32_DownloadedAreInstalled ==
    AtName => Range(Downloaded) \subseteq installed_mod_names

C32_NoRepeatedDownload == C32_NoNameDownloadedTwice /\ C32_DownloadedAreInstalled

\* two mod names were downloaded in turn, and the second one depends on a name
\* that was downloaded for the first
C32_Witness ==
    /\ subcommand = "install" /\ Len(batches) = 2
    /\ \E n \in Range(batches[1]) :
         n \in Dependencies(loaded_graph, batches[2][1])

\* C35: a step taken at a target that is already installed issues no
\* download, for the target or for anything else, and leaves the installed
\* names and the mods directory as they are
C35_InstalledTargetStep ==
    (AtName /\ mod_names[next_name] \in installed_mod_names)
        => /\ batches' = batches
           /\ installed_mod_names' = installed_mod_names
           /\ mods_dir' = mods_dir
           /\ next_name' = next_name + 1

C35_InstalledTargetSkipped == [][C35_InstalledTargetStep]_vars

\* the first target was installed from the start while one of its
\* dependencies was neither installed nor a core name, and the loop went past
\* it without a download
C35_Witness ==
    /\ subcommand = "install" /\ next_name = 2 /\ batches = <<>>
    /\ mod_names[1] \in installed_mod_names
    /\ \E d \in Dependencies(loaded_graph, mod_names[1]) :
         /\ d \notin installed_mod_names /\ d \notin CoreNames
         /\ d \in DOMAIN loaded_registry


\* the locations of the local mods as loaded
LoadedLocations == {inventory[i].location : i \in 1..Len(inventory)}

\* C33: a step of an update command without --install issues no download and
\* leaves the mods directory as it is
C33_ReadOnlyStep ==
    (subcommand = "update" /\ ~args_install)
        => (batches' = batches /\ mods_dir' = mods_dir)

\* an update command downloads only when updates are available and --install
\* is given, and then it downloads exactly the available updates
C33_DownloadsNeedInstallFlag ==
    (subcommand = "update" /\ batches # <<>>)
        => /\ args_install
           /\ available_updates # <<>>
           /\ batches = <<PairNames(available_updates)>>

C33_UpdateWithoutInstallReadOnly ==
    [][C33_ReadOnlyStep]_vars /\ []C33_DownloadsNeedInstallFlag

\* an update command without --install found updates and returned: nothing
\* was downloaded and the mods directory holds the files it held at the start
C33_Witness ==
    /\ subcommand = "update" /\ ~args_install /\ cpc = "returned"
    /\ available_updates # <<>>
    /\ batches = <<>> /\ mods_dir = LoadedLocations

\* an update command with --install found updates and downloaded them
C33_WitnessInstall ==
    /\ subcommand = "update" /\ args_install /\ cpc = "returned"
    /\ batches # <<>> /\ mods_dir # LoadedLocations

\* the local mod at index i is listed in the updater blacklist
Blacklisted(i) ==
    updater_blacklist[1] = "Some" /\ inventory[i].location \in updater_blacklist[2]

\* what the update check reports for the local mod at index i when it is
\* examined against the registry r
ReportOf(i, r) ==
    LET m == inventory[i]
        remote == get_mod_info_by_name(r, m.name)
    IN IF remote = <<>> \/ ~m.readable THEN <<>>
       ELSE IF has_matching_hash(remote[1].checksums, ChecksumOf(m.body)) THEN <<>>
       ELSE <<<<m.name, remote[1]>>>>

\* C34: once the update check has run, the available updates are the reports
\* of the local mods that are not blacklisted: a blacklisted local mod
\* contributes no report, whatever its checksum
C34_ReportsSkipBlacklisted ==
    (subcommand = "update" /\ cpc \in {"checked", "returned"})
        => available_updates =
              Flatten([i \in 1..Len(inventory) |->
                         IF Blacklisted(i) THEN <<>> ELSE ReportOf(i, loaded_registry)])

\* the name of a blacklisted local mod is neither reported nor downloaded,
\* unless a local mod of the same name that is not blacklisted is reported
C34_NameNeitherReportedNorDownloaded ==
    subcommand = "update" =>
        \A i \in 1..Len(inventory) :
            (/\ Blacklisted(i)
             /\ \A j \in 1..Len(inventory) :
                    inventory[j].name = inventory[i].name => Blacklisted(j))
                => /\ inventory[i].name \notin Range(PairNames(available_updates))
                   /\ inventory[i].name \notin Range(Downloaded)

C34_BlacklistedNeverUpdated ==
    C34_ReportsSkipBlacklisted /\ C34_NameNeitherReportedNorDownloaded

\* a blacklisted local mod whose checksum differs from the registry's was left
\* out while the update of another local mod was downloaded
C34_Witness ==
    /\ subcommand = "update" /\ cpc = "returned" /\ batches # <<>>
    /\ \E i \in 1..Len(inventory) :
         /\ Blacklisted(i)
         /\ ReportOf(i, loaded_registry) # <<>>
         /\ inventory[i].name \notin Range(Downloaded)

\* a blacklisted local mod is out of date and shares its name with a local mod
\* that is not blacklisted and whose update was downloaded
C34_WitnessSameName ==
    /\ subcommand = "update" /\ cpc = "returned" /\ batches # <<>>
    /\ \E i \in 1..Len(inventory) :
         /\ Blacklisted(i)
         /\ ReportOf(i, loaded_registry) # <<>>
         /\ inventory[i].name \in Range(Downloaded)

====
